---------------------------- MODULE HITLFormsProofs ----------------------------
(***************************************************************************)
(* Theorems about HITLForms, for any number of forms, callers, saves at    *)
(* once and restarts.                                                      *)
(*                                                                         *)
(* What the file is behind by is always under way: for each form, either   *)
(* the file is right about it, or a save is that will make it right, and   *)
(* every save that would make it wrong again is followed by such a one.    *)
(***************************************************************************)
EXTENDS HITLForms, TLAPS

Loading == loader.at # "done"

(* A form in one of the objects of a save that is pending is in its text as well. *)
Holds(s) == save[s].text \cup save[s].objects

Shapes ==
    \A s \in Saves :
        /\ save[s].at # "mkdir" => save[s].objects = {}
        /\ save[s].objects \subseteq InMap
        /\ (Loading /\ save[s].at # "idle") => save[s].late

(* What the age of a form, its status and its answers say of each other. *)
Honest ==
    \A f \in Forms :
        /\ age[f] = "unborn" => /\ form[f] = "none" /\ answers[f] = 0
                                /\ f \notin disk \cup loader.read
                                /\ \A s \in Saves : f \notin save[s].text
        /\ form[f] = "answered" => answers[f] > 0
        /\ form[f] = "expired" => age[f] = "due"

(* Until the loader is done the file is as the last process left it, or behind. *)
Untouched ==
    (Loading /\ ~behind) =>
        /\ loader.at = "merging" => loader.read \subseteq disk
        /\ \A f \in disk : form[f] = "none" /\ (~lossy => answers[f] = 0)
        /\ \A f \in Pending : \E s \in InFlight : f \in Holds(s)

(* An answered form stays so: the file lets go of it, or is about to. *)
AnsweredAt(f) ==
    (~lossy /\ answers[f] > 0) =>
        /\ form[f] # "pending" /\ answers[f] = 1
        /\ f \in disk => (behind \/ \E s \in InFlight : f \notin save[s].text)
        /\ \A t \in InFlight : (~save[t].late /\ f \in save[t].text) =>
              \E s \in InFlight : t \in save[s].older /\ f \notin save[s].text

(* An open form stays in the map, in the file, or in a save under way, *)
(* unless a read of the file that holds it fails.                      *)
OpenAt(f) ==
    (~lossy /\ age[f] = "fresh" /\ answers[f] = 0 /\ f \notin unread) =>
        /\ WholeMap => form[f] = "pending"
        /\ (loader.at = "reading" /\ ~behind /\ ~closed) => (f \in disk \/ form[f] = "pending")
        /\ (loader.at = "merging" /\ ~behind /\ ~closed) => (f \in loader.read \/ form[f] = "pending")
        /\ f \notin disk => (behind \/ \E s \in InFlight : f \in Holds(s))
        /\ \A t \in InFlight : (~save[t].late /\ f \notin Holds(t)) =>
              \E s \in InFlight : t \in save[s].older /\ f \in Holds(s)

(* The file agrees with the map about a form, or is about to. *)
CurrentAt(f) ==
    WholeMap =>
        /\ ~behind => (Agrees(disk, f) \/ \E s \in InFlight : Agrees(Outcome(s), f))
        /\ \A t \in InFlight : (~save[t].late /\ ~Agrees(Outcome(t), f)) =>
              \E s \in InFlight : t \in save[s].older /\ Agrees(Outcome(s), f)

IInv ==
    /\ TypeOK /\ Shapes /\ Honest /\ Untouched
    /\ \A f \in Forms : AnsweredAt(f) /\ OpenAt(f) /\ CurrentAt(f)

--------------------------------------------------------------------------------
(* Saves, a field at a time. *)

LEMMA SaveFields ==
    ASSUME NEW x \in SaveStates
    PROVE  /\ x.at \in {"idle", "mkdir", "rename"} /\ x.objects \subseteq Forms /\ x.text \subseteq Forms
           /\ x.late \in BOOLEAN /\ x.older \subseteq Saves
BY DEF SaveStates

LEMMA IdleSaveFacts ==
    /\ IdleSave \in SaveStates /\ IdleSave.at = "idle" /\ IdleSave.objects = {} /\ IdleSave.text = {}
    /\ IdleSave.older = {}
BY DEF IdleSave, SaveStates

(* What happens to save t: nothing, but for the names given. *)
Kept(t) == save'[t].at = save[t].at /\ save'[t].text = save[t].text
Ranked(t) == save'[t].late = save[t].late /\ save'[t].older = save[t].older

LEMMA StringifyFacts ==
    ASSUME TypeOK, NEW s \in Saves, Stringify(s)
    PROVE  /\ save' \in [Saves -> SaveStates]
           /\ \A t \in Saves \ {s} : save'[t] = save[t]
           /\ save[s].at = "mkdir" /\ save'[s].at = "rename" /\ save'[s].objects = {} /\ Ranked(s)
           /\ save'[s].text = save[s].text \cup (save[s].objects \cap Pending)
<1> DEFINE text == save[s].text \cup (save[s].objects \cap Pending)
           a == [save[s] EXCEPT !.at = "rename"]
           b == [a EXCEPT !.objects = {}]
           c == [b EXCEPT !.text = text]
<1>1. save \in [Saves -> SaveStates] /\ save[s] \in SaveStates
  BY DEF TypeOK
<1>2. /\ a \in SaveStates /\ a.at = "rename" /\ a.text = save[s].text
      /\ a.late = save[s].late /\ a.older = save[s].older
  BY <1>1 DEF SaveStates
<1>3. save' = [save EXCEPT ![s] = c]
  BY <1>1 DEF Stringify
<1> HIDE DEF a
<1>4. /\ b \in SaveStates /\ b.at = "rename" /\ b.text = save[s].text
      /\ b.late = save[s].late /\ b.older = save[s].older /\ b.objects = {}
  BY <1>2 DEF SaveStates
<1>5. text \in SUBSET Forms
  BY <1>1, SaveFields
<1> HIDE DEF b, text
<1>6. /\ c \in SaveStates /\ c.at = "rename" /\ c.text = text
      /\ c.late = save[s].late /\ c.older = save[s].older /\ c.objects = {}
  BY <1>4, <1>5 DEF SaveStates
<1> HIDE DEF c
<1> QED BY <1>1, <1>3, <1>6 DEF Stringify, Ranked, text

LEMMA EndedFacts ==
    ASSUME TypeOK, NEW s \in Saves, save' = Ended(s)
    PROVE  /\ save' \in [Saves -> SaveStates]
           /\ save'[s].at = "idle" /\ save'[s].objects = {} /\ save'[s].text = {}
           /\ \A t \in Saves \ {s} :
                /\ Kept(t) /\ save'[t].objects = save[t].objects
                /\ save'[t].late = (save[t].late \/ t \in save[s].older)
                /\ save'[t].older = save[t].older \ {s}
<1>1. save \in [Saves -> SaveStates]
  BY DEF TypeOK
<1>2. save'[s] = IdleSave
  BY DEF Ended
<1>3. ASSUME NEW t \in Saves, t # s
      PROVE  /\ save'[t] \in SaveStates
             /\ Kept(t) /\ save'[t].objects = save[t].objects
             /\ save'[t].late = (save[t].late \/ t \in save[s].older)
             /\ save'[t].older = save[t].older \ {s}
  <2> DEFINE late == save[t].late \/ t \in save[s].older
             older == save[t].older \ {s}
             a == [save[t] EXCEPT !.late = late]
             b == [a EXCEPT !.older = older]
  <2>1. save'[t] = b
    BY <1>3 DEF Ended
  <2>2. save[t] \in SaveStates /\ late \in BOOLEAN /\ older \in SUBSET Saves
    BY <1>1, SaveFields
  <2> HIDE DEF late, older
  <2>3. /\ a \in SaveStates /\ a.at = save[t].at /\ a.text = save[t].text /\ a.objects = save[t].objects
        /\ a.late = late /\ a.older = save[t].older
    BY <2>2 DEF SaveStates
  <2> HIDE DEF a
  <2>4. /\ b \in SaveStates /\ b.at = save[t].at /\ b.text = save[t].text /\ b.objects = save[t].objects
        /\ b.late = late /\ b.older = older
    BY <2>2, <2>3 DEF SaveStates
  <2> HIDE DEF b
  <2> QED BY <2>1, <2>4 DEF Kept, late, older
<1>4. save' = [t \in Saves |-> save'[t]]
  BY DEF Ended
<1> HIDE DEF Ended
<1>5. \A t \in Saves : save'[t] \in SaveStates
  BY <1>2, <1>3, IdleSaveFacts
<1>6. save' \in [Saves -> SaveStates]
  BY <1>4, <1>5
<1> QED BY <1>2, <1>3, <1>6, IdleSaveFacts

(* Save s has begun with the objects of members; F has left the objects of the others. *)
Begun(s, members, F) ==
    /\ save' \in [Saves -> SaveStates]
    /\ save[s].at = "idle" /\ save'[s].at = "mkdir" /\ save'[s].objects = members /\ save'[s].text = {}
    /\ save'[s].late = ~WholeMap /\ save'[s].older = InFlight
    /\ \A t \in Saves \ {s} : Kept(t) /\ Ranked(t) /\ save'[t].objects = save[t].objects \ F

LEMMA BeginFacts ==
    ASSUME TypeOK, NEW s \in Saves, save[s].at = "idle", NEW members \in SUBSET Forms,
           save' = Begin(save, s, members)
    PROVE  Begun(s, members, {})
<1> DEFINE x == [at |-> "mkdir", objects |-> members, text |-> {}, late |-> ~WholeMap, older |-> InFlight]
<1>1. save \in [Saves -> SaveStates]
  BY DEF TypeOK
<1>2. save' = [save EXCEPT ![s] = x]
  BY DEF Begin
<1>3. x \in SaveStates
  BY DEF SaveStates, InFlight, WholeMap
<1>4. /\ x.at = "mkdir" /\ x.objects = members /\ x.text = {}
      /\ x.late = ~WholeMap /\ x.older = InFlight
  OBVIOUS
<1> HIDE DEF x
<1> QED BY <1>1, <1>2, <1>3, <1>4 DEF Begun, Kept, Ranked

LEMMA PurgeFacts ==
    ASSUME TypeOK, NEW s \in Saves, save[s].at = "idle", NEW P \in SUBSET Forms,
           save' = Begin([t \in Saves |-> [save[t] EXCEPT !.objects = @ \ P]], s, InMap \ P)
    PROVE  Begun(s, InMap \ P, P)
<1> DEFINE x == [at |-> "mkdir", objects |-> InMap \ P, text |-> {}, late |-> ~WholeMap, older |-> InFlight]
           b == [t \in Saves |-> [save[t] EXCEPT !.objects = @ \ P]]
<1>1. save \in [Saves -> SaveStates]
  BY DEF TypeOK
<1>2. save' = [b EXCEPT ![s] = x]
  BY DEF Begin
<1>3. x \in SaveStates
  BY DEF SaveStates, InFlight, WholeMap, InMap
<1>4. /\ x.at = "mkdir" /\ x.objects = InMap \ P /\ x.text = {}
      /\ x.late = ~WholeMap /\ x.older = InFlight
  OBVIOUS
<1> HIDE DEF x
<1>5. ASSUME NEW t \in Saves
      PROVE  /\ b[t] \in SaveStates /\ b[t].at = save[t].at /\ b[t].text = save[t].text
             /\ b[t].late = save[t].late /\ b[t].older = save[t].older
             /\ b[t].objects = save[t].objects \ P
  <2> DEFINE objects == save[t].objects \ P
  <2>1. save[t] \in SaveStates /\ objects \in SUBSET Forms /\ b[t] = [save[t] EXCEPT !.objects = objects]
    BY <1>1, SaveFields
  <2> HIDE DEF objects, b
  <2> QED BY <2>1 DEF SaveStates, objects
<1>6. b \in [Saves -> SaveStates]
  BY <1>5
<1> HIDE DEF b
<1> QED BY <1>2, <1>3, <1>4, <1>5, <1>6 DEF Begun, Kept, Ranked

LEMMA ReleasedFacts ==
    ASSUME TypeOK, NEW F \in SUBSET Forms, save' = Released(F)
    PROVE  /\ save' \in [Saves -> SaveStates]
           /\ \A t \in Saves :
                /\ save'[t].at = save[t].at /\ Ranked(t)
                /\ save'[t].objects = save[t].objects \ F
                /\ save'[t].text = save[t].text \cup (save[t].objects \cap F \cap Pending)
<1>1. save \in [Saves -> SaveStates]
  BY DEF TypeOK
<1>2. ASSUME NEW t \in Saves
      PROVE  /\ save'[t] \in SaveStates
             /\ save'[t].at = save[t].at /\ Ranked(t)
             /\ save'[t].objects = save[t].objects \ F
             /\ save'[t].text = save[t].text \cup (save[t].objects \cap F \cap Pending)
  <2> DEFINE objects == save[t].objects \ F
             text == save[t].text \cup (save[t].objects \cap F \cap Pending)
             a == [save[t] EXCEPT !.objects = objects]
             b == [a EXCEPT !.text = text]
  <2>1. save[t] \in SaveStates /\ objects \in SUBSET Forms /\ text \in SUBSET Forms
    BY <1>1, SaveFields
  <2>2. save'[t] = b
    BY DEF Released
  <2> HIDE DEF objects, text
  <2>3. /\ a \in SaveStates /\ a.at = save[t].at /\ a.text = save[t].text /\ a.objects = objects
        /\ a.late = save[t].late /\ a.older = save[t].older
    BY <2>1 DEF SaveStates
  <2> HIDE DEF a
  <2>4. /\ b \in SaveStates /\ b.at = save[t].at /\ b.text = text /\ b.objects = objects
        /\ b.late = save[t].late /\ b.older = save[t].older
    BY <2>1, <2>3 DEF SaveStates
  <2> HIDE DEF b
  <2> QED BY <2>2, <2>4 DEF Ranked, objects, text
<1>3. save' = [t \in Saves |-> save'[t]]
  BY DEF Released
<1> HIDE DEF Released
<1> QED BY <1>2, <1>3

--------------------------------------------------------------------------------
(* Types *)

LEMMA StatusTypes ==
    ASSUME TypeOK
    PROVE  /\ form \in [Forms -> Statuses] /\ age \in [Forms -> {"unborn", "fresh", "due"}]
           /\ disk \subseteq Forms /\ loader.read \subseteq Forms /\ answers \in [Forms -> 0..2]
           /\ loader.at \in {"reading", "merging", "done"}
           /\ closed \in BOOLEAN /\ behind \in BOOLEAN /\ lossy \in BOOLEAN /\ unread \subseteq Forms
           /\ stops \in 0..MaxStops
           /\ caller \in [Callers -> {"idle", "waiting"}] /\ save \in [Saves -> SaveStates]
           /\ \A s \in Saves : save[s] \in SaveStates
BY DEF TypeOK

LEMMA ExpiredFacts ==
    ASSUME TypeOK, NEW F
    PROVE  /\ Expired(F) \in [Forms -> Statuses]
           /\ \A f \in Forms : Expired(F)[f] = IF f \in F THEN "expired" ELSE form[f]
BY DEF TypeOK, Expired, Statuses

LEMMA CountFacts ==
    ASSUME TypeOK, NEW f \in Forms
    PROVE  /\ Count(f) \in [Forms -> 0..2] /\ Count(f)[f] > 0 /\ (answers[f] = 0 => Count(f)[f] = 1)
           /\ \A g \in Forms \ {f} : Count(f)[g] = answers[g]
<1>1. answers \in [Forms -> 0..2] /\ answers[f] \in 0..2
  BY DEF TypeOK
<1> QED BY <1>1 DEF Count

(* The steps, by what they do to the saves. *)

Expiring(F) ==
    /\ F \in SUBSET Due /\ form' = Expired(F) /\ caller' \in [Callers -> {"idle", "waiting"}]
    /\ UNCHANGED <<age, disk, save, loader, closed, stops, history>>

Ending(s) ==
    /\ save[s].at # "idle" /\ save' = Ended(s)
    /\ \/ save[s].at = "rename" /\ disk' = save[s].text /\ behind' = save[s].late
       \/ disk' = disk /\ behind' = TRUE
    /\ UNCHANGED <<memory, age, stops, answers, lossy, unread>>

Answering(f, s) ==
    /\ form[f] = "pending" /\ save[s].at = "idle"
    /\ form' = [form EXCEPT ![f] = "answered"]
    /\ save' = Begin(save, s, InMap)
    /\ answers' = Count(f)
    /\ UNCHANGED <<age, disk, loader, closed, caller, stops, behind, lossy, unread>>

LEMMA Steps ==
    ASSUME TypeOK, Next
    PROVE  \/ \E F : Expiring(F)
           \/ \E s \in Saves : Stringify(s) \/ Ending(s) \/ \E P \in SUBSET Forms : Cleanup(s, P)
           \/ \E c \in Callers, f \in Forms, s \in Saves : Create(c, f, s)
           \/ \E f \in Forms, s \in Saves : Answering(f, s)
           \/ \E f \in Forms : Age(f)
           \/ LoaderReads \/ LoaderFails \/ LoaderMerges \/ Shutdown \/ Restart
<1>1. caller \in [Callers -> {"idle", "waiting"}] /\ form \in [Forms -> Statuses]
  BY DEF TypeOK
<1>2. ASSUME NEW s \in Saves, Land(s) \/ SaveFails(s)
      PROVE  Ending(s)
  BY <1>2 DEF Land, SaveFails, Ending
<1>3. ASSUME NEW F \in SUBSET Forms, Peek(F)
      PROVE  Expiring(F)
  BY <1>1, <1>3 DEF Peek, Expiring
<1>4. ASSUME NEW c \in Callers, LookMisses(c)
      PROVE  Expiring(Due)
  BY <1>1, <1>4 DEF LookMisses, Expiring
<1>5. ASSUME NEW c \in Callers, Request(c) \/ Refused(c)
      PROVE  Expiring({})
  <2>1. Expired({}) = form
    BY <1>1 DEF Expired
  <2> QED BY <1>1, <1>5, <2>1 DEF Request, Refused, Expiring, history
<1>6. ASSUME NEW f \in Forms, SubmitLate(f)
      PROVE  Expiring({f})
  BY <1>1, <1>6 DEF SubmitLate, Expiring
<1>7. ASSUME NEW f \in Forms, NEW s \in Saves, Submit(f, s) \/ Cancel(f, s)
      PROVE  Answering(f, s)
  BY <1>7 DEF Submit, Cancel, Answering
<1> QED BY <1>2, <1>3, <1>4, <1>5, <1>6, <1>7 DEF Next

--------------------------------------------------------------------------------
(* One lemma per step *)

LEMMA InitInv ==
    ASSUME Init
    PROVE  IInv
<1>1. TypeOK
  <2>1. save \in [Saves -> SaveStates]
    BY IdleSaveFacts DEF Init
  <2>2. form \in [Forms -> Statuses] /\ loader \in [at : {"reading", "merging", "done"}, read : SUBSET Forms]
    BY DEF Init, Nowhere, Statuses, NotReading
  <2>3. stops \in 0..MaxStops
    BY StopsAssumption DEF Init
  <2>4. closed \in BOOLEAN /\ behind \in BOOLEAN /\ lossy \in BOOLEAN /\ unread \in SUBSET Forms
    BY DEF Init
  <2>5. age \in [Forms -> {"unborn", "fresh", "due"}] /\ caller \in [Callers -> {"idle", "waiting"}]
        /\ disk \in SUBSET Forms
    BY DEF Init
  <2>6. answers \in [Forms -> 0..2]
    BY DEF Init
  <2> QED BY <2>1, <2>2, <2>3, <2>4, <2>5, <2>6 DEF TypeOK
<1>2. /\ InFlight = {} /\ Pending = {} /\ disk = {} /\ loader.at = "reading" /\ loader.read = {}
      /\ \A f \in Forms : form[f] = "none" /\ answers[f] = 0 /\ age[f] = "unborn"
      /\ \A s \in Saves : save[s] = IdleSave
  BY IdleSaveFacts DEF Init, InFlight, Pending, Nowhere, NotReading
<1>3. Shapes
  <2>1. \A s \in Saves : save[s].at = "idle" /\ save[s].objects = {}
    BY <1>2, IdleSaveFacts
  <2> QED BY <2>1 DEF Shapes
<1>4. Honest
  BY <1>2, IdleSaveFacts DEF Honest
<1>5. Untouched
  BY <1>2 DEF Untouched
<1>6. \A f \in Forms : AnsweredAt(f) /\ OpenAt(f) /\ CurrentAt(f)
  BY <1>2 DEF AnsweredAt, OpenAt, CurrentAt, WholeMap
<1> QED BY <1>1, <1>3, <1>4, <1>5, <1>6 DEF IInv

LEMMA ExpiringKeeps ==
    ASSUME IInv, NEW F, Expiring(F)
    PROVE  IInv'
<1>1. /\ TypeOK /\ Shapes /\ Honest /\ Untouched
      /\ \A f \in Forms : AnsweredAt(f) /\ OpenAt(f) /\ CurrentAt(f)
  BY DEF IInv
<1>2. /\ UNCHANGED <<age, disk, save, loader, closed, stops, answers, behind, lossy, unread>>
      /\ caller' \in [Callers -> {"idle", "waiting"}]
      /\ \A f \in F : f \in Forms /\ form[f] = "pending" /\ age[f] = "due"
      /\ form' = Expired(F)
  BY DEF Expiring, Due, Pending, history
<1>3. /\ form' \in [Forms -> Statuses]
      /\ \A f \in Forms : form'[f] = IF f \in F THEN "expired" ELSE form[f]
  BY <1>1, <1>2, ExpiredFacts
<1>4. TypeOK'
  BY <1>1, <1>2, <1>3 DEF TypeOK
<1>5. InFlight' = InFlight /\ InMap' = InMap /\ Pending' = Pending \ F /\ WholeMap' = WholeMap /\ Loading' = Loading
      /\ \A s \in Saves : Holds(s)' = Holds(s)
  BY <1>2, <1>3 DEF InFlight, InMap, Pending, WholeMap, Loading, Holds
<1>6. Shapes'
  BY <1>1, <1>2, <1>5 DEF Shapes
<1>7. Honest'
  BY <1>1, <1>2, <1>3 DEF Honest
<1>8. Untouched'
  <2>1. \A f \in disk : f \in Forms /\ (form[f] = "none" => form'[f] = "none")
    BY <1>1, <1>2, <1>3, StatusTypes
  <2> QED BY <1>1, <1>2, <1>5, <2>1 DEF Untouched, InFlight
<1>9. ASSUME NEW f \in Forms
      PROVE  AnsweredAt(f)' /\ OpenAt(f)'
  <2>1. AnsweredAt(f)'
    BY <1>1, <1>2, <1>3, <1>5 DEF AnsweredAt
  <2>2. OpenAt(f)'
    BY <1>1, <1>2, <1>3, <1>5 DEF OpenAt, InFlight
  <2> QED BY <2>1, <2>2
<1>10. ASSUME NEW f \in Forms
       PROVE  CurrentAt(f)'
  <2>1. Agrees(disk, f) => Agrees(disk, f)'
    BY <1>2, <1>3 DEF Agrees
  <2>2. \A s \in Saves : Agrees(Outcome(s), f) => Agrees(Outcome(s), f)'
    BY <1>2, <1>3, <1>5 DEF Agrees, Outcome
  <2> QED BY <1>1, <1>2, <1>5, <2>1, <2>2 DEF CurrentAt, InFlight
<1> QED BY <1>4, <1>6, <1>7, <1>8, <1>9, <1>10 DEF IInv

LEMMA AgeKeeps ==
    ASSUME IInv, NEW g \in Forms, Age(g)
    PROVE  IInv'
<1>1. /\ TypeOK /\ Shapes /\ Honest /\ Untouched
      /\ \A f \in Forms : AnsweredAt(f) /\ OpenAt(f) /\ CurrentAt(f)
  BY DEF IInv
<1>2. /\ UNCHANGED <<form, disk, save, loader, closed, caller, stops, answers, behind, lossy, unread>>
      /\ age[g] = "fresh" /\ age' = [age EXCEPT ![g] = "due"]
  BY DEF Age, memory, history
<1>3. age' \in [Forms -> {"unborn", "fresh", "due"}] /\ age'[g] = "due" /\ \A f \in Forms \ {g} : age'[f] = age[f]
  BY <1>1, <1>2 DEF TypeOK
<1>4. TypeOK'
  BY <1>1, <1>2, <1>3 DEF TypeOK
<1>5. InFlight' = InFlight /\ InMap' = InMap /\ Pending' = Pending /\ WholeMap' = WholeMap /\ Loading' = Loading
      /\ \A s \in Saves : Holds(s)' = Holds(s) /\ Outcome(s)' = Outcome(s)
  BY <1>2 DEF InFlight, InMap, Pending, WholeMap, Loading, Holds, Outcome
<1>6. Shapes'
  BY <1>1, <1>2, <1>5 DEF Shapes
<1>7. Honest'
  BY <1>1, <1>2, <1>3 DEF Honest
<1>8. Untouched'
  BY <1>1, <1>2, <1>5 DEF Untouched, InFlight
<1>9. ASSUME NEW f \in Forms
      PROVE  AnsweredAt(f)' /\ OpenAt(f)' /\ CurrentAt(f)'
  <2>1. AnsweredAt(f)'
    BY <1>1, <1>2, <1>5 DEF AnsweredAt
  <2>2. OpenAt(f)'
    BY <1>1, <1>2, <1>3, <1>5 DEF OpenAt, InFlight
  <2>3. CurrentAt(f)'
    BY <1>1, <1>2, <1>5 DEF CurrentAt, InFlight, Agrees
  <2> QED BY <2>1, <2>2, <2>3
<1> QED BY <1>4, <1>6, <1>7, <1>8, <1>9 DEF IInv

(* The file is read, or the read fails and its forms are unread. *)
LEMMA LoaderReadsKeeps ==
    ASSUME IInv, LoaderReads \/ LoaderFails
    PROVE  IInv'
<1>1. /\ TypeOK /\ Shapes /\ Honest /\ Untouched
      /\ \A f \in Forms : AnsweredAt(f) /\ OpenAt(f) /\ CurrentAt(f)
  BY DEF IInv
<1>2. /\ UNCHANGED <<form, age, disk, save, closed, caller, stops, answers, behind, lossy>>
      /\ loader.at = "reading" /\ loader'.at = "merging"
      /\ loader' \in [at : {"reading", "merging", "done"}, read : SUBSET Forms]
      /\ loader'.read \subseteq disk /\ unread' \in SUBSET Forms
      /\ \A f \in Forms \ unread' : f \in disk => f \in loader'.read
      /\ \A f \in Forms \ unread' : f \notin disk => f \notin unread
  BY <1>1, StatusTypes DEF LoaderReads, LoaderFails
<1>3. TypeOK'
  BY <1>1, <1>2 DEF TypeOK
<1>4. /\ InFlight' = InFlight /\ InMap' = InMap /\ Pending' = Pending
      /\ ~WholeMap /\ ~WholeMap' /\ Loading /\ Loading'
      /\ \A s \in Saves : Holds(s)' = Holds(s)
  BY <1>2 DEF InFlight, InMap, Pending, WholeMap, Loading, Holds
<1>5. Shapes'
  BY <1>1, <1>2, <1>4 DEF Shapes
<1>6. Honest'
  BY <1>1, <1>2, <1>4 DEF Honest
<1>7. Untouched'
  BY <1>1, <1>2, <1>4 DEF Untouched, InFlight
<1>8. ASSUME NEW f \in Forms
      PROVE  AnsweredAt(f)' /\ OpenAt(f)' /\ CurrentAt(f)'
  <2>1. AnsweredAt(f)'
    BY <1>1, <1>2, <1>4 DEF AnsweredAt
  <2>2. OpenAt(f)'
    <3> SUFFICES ASSUME ~lossy, age[f] = "fresh", answers[f] = 0, f \notin unread'
                 PROVE  OpenAt(f)'
      BY <1>2 DEF OpenAt
    <3>1. \A t \in InFlight' : save'[t].late
      BY <1>1, <1>2, <1>4 DEF Shapes, InFlight
    <3>2. loader'.at # "reading" /\ ~WholeMap'
      BY <1>2, <1>4
    <3>3. (~behind' /\ ~closed') => (f \in loader'.read \/ form'[f] = "pending")
      BY <1>1, <1>2 DEF OpenAt
    <3>4. f \notin disk' => (behind' \/ \E s \in InFlight' : f \in Holds(s)')
      BY <1>1, <1>2, <1>4 DEF OpenAt, InFlight
    <3> QED BY <3>1, <3>2, <3>3, <3>4 DEF OpenAt
  <2>3. CurrentAt(f)'
    BY <1>4 DEF CurrentAt
  <2> QED BY <2>1, <2>2, <2>3
<1> QED BY <1>3, <1>5, <1>6, <1>7, <1>8 DEF IInv

(* An open form that the map holds is pending. *)
LEMMA OpenIsPending ==
    ASSUME TypeOK, Honest
    PROVE  \A f \in Forms : (age[f] = "fresh" /\ answers[f] = 0 /\ form[f] # "none") => form[f] = "pending"
BY StatusTypes DEF Honest, Statuses

LEMMA StringifyKeeps ==
    ASSUME IInv, NEW s \in Saves, Stringify(s)
    PROVE  IInv'
<1>1. /\ TypeOK /\ Shapes /\ Honest /\ Untouched
      /\ \A f \in Forms : AnsweredAt(f) /\ OpenAt(f) /\ CurrentAt(f)
  BY DEF IInv
<1>2. UNCHANGED <<form, age, disk, loader, closed, caller, stops, answers, behind, lossy, unread>>
  BY DEF Stringify, memory, history
<1>3. /\ save' \in [Saves -> SaveStates]
      /\ \A t \in Saves \ {s} : save'[t] = save[t]
      /\ save[s].at = "mkdir" /\ save'[s].at = "rename" /\ save'[s].objects = {}
      /\ \A t \in Saves : Ranked(t)
      /\ save'[s].text = save[s].text \cup (save[s].objects \cap Pending)
  BY <1>1, StringifyFacts DEF Ranked
<1>4. TypeOK'
  BY <1>1, <1>2, <1>3 DEF TypeOK
<1>5. InFlight' = InFlight /\ InMap' = InMap /\ Pending' = Pending /\ WholeMap' = WholeMap /\ Loading' = Loading
      /\ \A t \in Saves : Outcome(t)' = Outcome(t)
  BY <1>2, <1>3 DEF InFlight, InMap, Pending, WholeMap, Loading, Outcome
<1>6. \A t \in Saves, f \in Pending : f \in Holds(t) => f \in Holds(t)'
  BY <1>3, <1>5 DEF Holds
<1>7. \A t \in Saves, f \in Forms : form[f] # "pending" => (f \in save'[t].text <=> f \in save[t].text)
  BY <1>3 DEF Pending
<1>8. Shapes'
  BY <1>1, <1>3, <1>5 DEF Shapes, Ranked
<1>9. Honest'
  BY <1>1, <1>2, <1>3, <1>7 DEF Honest
<1>10. Untouched'
  BY <1>1, <1>2, <1>5, <1>6 DEF Untouched, InFlight
<1>11. ASSUME NEW f \in Forms
       PROVE  AnsweredAt(f)' /\ OpenAt(f)' /\ CurrentAt(f)'
  <2>1. AnsweredAt(f)'
    BY <1>1, <1>2, <1>3, <1>5, <1>7 DEF AnsweredAt, InFlight, Ranked
  <2>2. ASSUME ~lossy, age[f] = "fresh", answers[f] = 0
        PROVE  \A t \in Saves : f \in Holds(t) => f \in Holds(t)'
    <3>1. ASSUME NEW t \in Saves, f \in save[t].objects
          PROVE  f \in Pending
      BY <1>1, <2>2, <3>1, OpenIsPending DEF Shapes, InMap, Pending
    <3> QED BY <1>3, <3>1 DEF Holds
  <2>3. OpenAt(f)'
    BY <1>1, <1>2, <1>3, <1>5, <2>2 DEF OpenAt, InFlight, Ranked
  <2>4. CurrentAt(f)'
    BY <1>1, <1>2, <1>3, <1>5 DEF CurrentAt, InFlight, Agrees, Ranked
  <2> QED BY <2>1, <2>3, <2>4
<1> QED BY <1>4, <1>8, <1>9, <1>10, <1>11 DEF IInv

LEMMA EndingKeeps ==
    ASSUME IInv, NEW s \in Saves, Ending(s)
    PROVE  IInv'
<1>1. /\ TypeOK /\ Shapes /\ Honest /\ Untouched
      /\ \A f \in Forms : AnsweredAt(f) /\ OpenAt(f) /\ CurrentAt(f)
  BY DEF IInv
<1>2. /\ UNCHANGED <<form, age, loader, closed, caller, stops, answers, lossy, unread>>
      /\ save[s].at # "idle"
      /\ \/ save[s].at = "rename" /\ disk' = save[s].text /\ behind' = save[s].late
         \/ disk' = disk /\ behind' = TRUE
  BY DEF Ending, memory
<1>3. /\ save' \in [Saves -> SaveStates]
      /\ save'[s].at = "idle" /\ save'[s].objects = {} /\ save'[s].text = {}
      /\ \A t \in Saves \ {s} :
            /\ save'[t].at = save[t].at /\ save'[t].text = save[t].text /\ save'[t].objects = save[t].objects
            /\ save'[t].late = (save[t].late \/ t \in save[s].older)
            /\ save'[t].older = save[t].older \ {s}
  BY <1>1, EndedFacts DEF Ending, Kept
<1>4. save[s] \in SaveStates /\ save[s].text \subseteq Forms /\ save[s].late \in BOOLEAN
  BY <1>1, StatusTypes, SaveFields
<1>5. TypeOK'
  BY <1>1, <1>2, <1>3, <1>4 DEF TypeOK
<1>6. /\ InFlight' = InFlight \ {s} /\ s \in InFlight
      /\ InMap' = InMap /\ Pending' = Pending /\ WholeMap' = WholeMap /\ Loading' = Loading
      /\ \A t \in InFlight' : Outcome(t)' = Outcome(t) /\ Holds(t)' = Holds(t)
  BY <1>2, <1>3 DEF InFlight, InMap, Pending, WholeMap, Loading, Outcome, Holds
<1>7. Shapes'
  BY <1>1, <1>3, <1>6 DEF Shapes
<1>8. Honest'
  BY <1>1, <1>2, <1>3 DEF Honest
<1>9. Loading => behind'
  BY <1>1, <1>2 DEF Shapes
<1>10. Untouched'
  BY <1>6, <1>9 DEF Untouched
<1>11. \/ disk' = save[s].text /\ save[s].objects = {} /\ behind' = save[s].late
       \/ disk' = disk /\ behind'
  BY <1>1, <1>2 DEF Shapes
(* A save that is neither late nor made late by this one keeps its successors. *)
<1>12. \A t \in InFlight' : ~save'[t].late =>
          /\ t \in InFlight /\ ~save[t].late
          /\ \A u \in InFlight : t \in save[u].older => u \in InFlight' /\ t \in save'[u].older
  BY <1>3, <1>6 DEF InFlight
<1>13. ASSUME NEW f \in Forms
       PROVE  AnsweredAt(f)'
  <2> SUFFICES ASSUME ~lossy, answers[f] > 0
               PROVE  /\ f \in disk' => (behind' \/ \E u \in InFlight' : f \notin save'[u].text)
                      /\ \A t \in InFlight' : (~save'[t].late /\ f \in save'[t].text) =>
                            \E u \in InFlight' : t \in save'[u].older /\ f \notin save'[u].text
    BY <1>1, <1>2 DEF AnsweredAt
  <2>1. ASSUME f \in disk', ~behind'
        PROVE  \E u \in InFlight' : f \notin save'[u].text
    <3>1. f \in save[s].text /\ ~save[s].late
      BY <1>4, <1>11, <2>1
    <3>2. PICK u \in InFlight : s \in save[u].older /\ f \notin save[u].text
      BY <1>1, <1>6, <3>1 DEF AnsweredAt
    <3> QED BY <1>3, <1>6, <3>1, <3>2 DEF InFlight
  <2>2. ASSUME NEW t \in InFlight', ~save'[t].late, f \in save'[t].text
        PROVE  \E u \in InFlight' : t \in save'[u].older /\ f \notin save'[u].text
    <3>1. f \in save[t].text /\ t # s
      BY <1>3, <1>6, <2>2 DEF InFlight
    <3>2. PICK u \in InFlight : t \in save[u].older /\ f \notin save[u].text
      BY <1>1, <1>12, <2>2, <3>1 DEF AnsweredAt
    <3> QED BY <1>3, <1>6, <1>12, <2>2, <3>2 DEF InFlight
  <2> QED BY <2>1, <2>2
<1>14. ASSUME NEW f \in Forms
       PROVE  OpenAt(f)'
  <2> SUFFICES ASSUME ~lossy, age[f] = "fresh", answers[f] = 0, f \notin unread
               PROVE  /\ WholeMap => form[f] = "pending"
                      /\ f \notin disk' => (behind' \/ \E u \in InFlight' : f \in Holds(u)')
                      /\ \A t \in InFlight' : (~save'[t].late /\ f \notin Holds(t)') =>
                            \E u \in InFlight' : t \in save'[u].older /\ f \in Holds(u)'
    BY <1>2, <1>6, <1>9 DEF OpenAt, Loading
  <2>1. ASSUME f \notin disk', ~behind'
        PROVE  \E u \in InFlight' : f \in Holds(u)'
    <3>1. f \notin Holds(s) /\ ~save[s].late
      BY <1>4, <1>11, <2>1 DEF Holds
    <3>2. PICK u \in InFlight : s \in save[u].older /\ f \in Holds(u)
      BY <1>1, <1>6, <3>1 DEF OpenAt
    <3> QED BY <1>6, <3>1, <3>2
  <2>2. ASSUME NEW t \in InFlight', ~save'[t].late, f \notin Holds(t)'
        PROVE  \E u \in InFlight' : t \in save'[u].older /\ f \in Holds(u)'
    <3>1. f \notin Holds(t)
      BY <1>6, <2>2
    <3>2. PICK u \in InFlight : t \in save[u].older /\ f \in Holds(u)
      BY <1>1, <1>12, <2>2, <3>1 DEF OpenAt
    <3> QED BY <1>6, <1>12, <2>2, <3>2
  <2>3. WholeMap => form[f] = "pending"
    BY <1>1 DEF OpenAt
  <2> QED BY <2>1, <2>2, <2>3
<1>15. ASSUME NEW f \in Forms
       PROVE  CurrentAt(f)'
  <2>1. \A t \in InFlight' : Agrees(Outcome(t), f)' <=> Agrees(Outcome(t), f)
    BY <1>2, <1>6 DEF Agrees
  <2> SUFFICES ASSUME WholeMap
               PROVE  /\ ~behind' => (Agrees(disk, f)' \/ \E u \in InFlight' : Agrees(Outcome(u), f)')
                      /\ \A t \in InFlight' : (~save'[t].late /\ ~Agrees(Outcome(t), f)') =>
                            \E u \in InFlight' : t \in save'[u].older /\ Agrees(Outcome(u), f)'
    BY <1>6 DEF CurrentAt
  <2>2. ASSUME ~Agrees(disk, f)', ~behind'
        PROVE  \E u \in InFlight' : Agrees(Outcome(u), f)'
    <3>1. disk' = Outcome(s) /\ ~save[s].late
      BY <1>4, <1>11, <2>2 DEF Outcome
    <3>2. ~Agrees(Outcome(s), f)
      BY <1>2, <2>2, <3>1 DEF Agrees
    <3>3. PICK u \in InFlight : s \in save[u].older /\ Agrees(Outcome(u), f)
      BY <1>1, <1>6, <3>1, <3>2 DEF CurrentAt
    <3> QED BY <1>6, <2>1, <3>2, <3>3
  <2>3. ASSUME NEW t \in InFlight', ~save'[t].late, ~Agrees(Outcome(t), f)'
        PROVE  \E u \in InFlight' : t \in save'[u].older /\ Agrees(Outcome(u), f)'
    <3>1. ~Agrees(Outcome(t), f)
      BY <2>1, <2>3
    <3>2. PICK u \in InFlight : t \in save[u].older /\ Agrees(Outcome(u), f)
      BY <1>1, <1>12, <2>3, <3>1 DEF CurrentAt
    <3> QED BY <1>12, <2>1, <2>3, <3>2
  <2> QED BY <2>2, <2>3
<1> QED BY <1>5, <1>7, <1>8, <1>10, <1>13, <1>14, <1>15 DEF IInv

--------------------------------------------------------------------------------
(* A save begins.  What of the invariant rests on the saves alone. *)

LEMMA BegunFacts ==
    ASSUME NEW s \in Saves, NEW members, NEW F, Begun(s, members, F), TypeOK
    PROVE  /\ InFlight' = InFlight \cup {s} /\ s \notin InFlight /\ s \in InFlight'
           /\ save'[s].older = InFlight /\ save'[s].late = ~WholeMap
           /\ save'[s].text = {} /\ Holds(s)' = members
           /\ \A t \in InFlight : /\ save'[t].text = save[t].text /\ save'[t].late = save[t].late
                                  /\ save'[t].older = save[t].older
                                  /\ Holds(t)' \subseteq Holds(t)
                                  /\ \A f \in Holds(t) \ F : f \in Holds(t)'
BY DEF Begun, InFlight, Holds, Kept, Ranked

(* A save of the whole map makes the file right about every form. *)
LEMMA BegunCurrent ==
    ASSUME NEW s \in Saves, NEW members, NEW F, Begun(s, members, F), TypeOK,
           Pending' \subseteq members, NEW f \in Forms
    PROVE  CurrentAt(f)'
<1>1. Outcome(s)' = Pending'
  BY DEF Begun, Outcome
<1>2. Agrees(Outcome(s), f)'
  BY <1>1 DEF Agrees, Pending
<1>3. /\ InFlight' = InFlight \cup {s} /\ save'[s].older = InFlight
  BY BegunFacts
<1>4. \A t \in InFlight' : ~Agrees(Outcome(t), f)' => t \in save'[s].older
  BY <1>2, <1>3
<1> QED BY <1>2, <1>3, <1>4 DEF CurrentAt

LEMMA BegunShapes ==
    ASSUME NEW s \in Saves, NEW members, NEW F, Begun(s, members, F), TypeOK, Shapes,
           Loading' = Loading, members \subseteq InMap', InMap \ F \subseteq InMap'
    PROVE  Shapes'
BY DEF Begun, Shapes, Kept, Ranked, WholeMap, Loading

(* An answered form that stays as it is. *)
LEMMA BegunAnswered ==
    ASSUME NEW s \in Saves, NEW members, NEW F, Begun(s, members, F), TypeOK,
           NEW f \in Forms, AnsweredAt(f), form'[f] # "pending" \/ form'[f] = form[f], answers'[f] = answers[f],
           UNCHANGED <<disk, behind, lossy, unread>>
    PROVE  AnsweredAt(f)'
BY BegunFacts DEF AnsweredAt

(* An open form that stays as it is. *)
LEMMA BegunOpen ==
    ASSUME NEW s \in Saves, NEW members, NEW F, Begun(s, members, F), TypeOK,
           NEW f \in Forms, OpenAt(f), form'[f] = form[f], answers'[f] = answers[f], age'[f] = age[f],
           f \notin F, WholeMap /\ form[f] = "pending" => f \in members,
           UNCHANGED <<disk, behind, lossy, unread, loader, closed>>
    PROVE  OpenAt(f)'
<1> SUFFICES ASSUME ~lossy, age[f] = "fresh", answers[f] = 0, f \notin unread
             PROVE  OpenAt(f)'
  BY DEF OpenAt
<1>1. WholeMap' = WholeMap /\ Loading' = Loading
  BY DEF WholeMap, Loading
<1>2. \A t \in InFlight' : (~save'[t].late /\ f \notin Holds(t)') =>
        \E u \in InFlight' : t \in save'[u].older /\ f \in Holds(u)'
  <2> SUFFICES ASSUME NEW t \in InFlight', ~save'[t].late, f \notin Holds(t)'
               PROVE  \E u \in InFlight' : t \in save'[u].older /\ f \in Holds(u)'
    OBVIOUS
  <2>1. CASE t = s
    <3>1. save'[s].late = ~WholeMap /\ Holds(s)' = members
      BY BegunFacts
    <3>2. f \in Holds(s)' \/ save'[s].late
      BY <3>1 DEF OpenAt
    <3> QED BY <2>1, <3>2 DEF Holds
  <2>2. CASE t # s
    <3>1. t \in InFlight /\ ~save[t].late /\ f \notin Holds(t)
      BY <2>2, BegunFacts
    <3>2. PICK u \in InFlight : t \in save[u].older /\ f \in Holds(u)
      BY <3>1 DEF OpenAt
    <3> QED BY <3>2, BegunFacts
  <2> QED BY <2>1, <2>2
<1>3. f \notin disk' => (behind' \/ \E u \in InFlight' : f \in Holds(u)')
  BY BegunFacts DEF OpenAt
<1> QED BY <1>1, <1>2, <1>3 DEF OpenAt

LEMMA CreateKeeps ==
    ASSUME IInv, NEW c \in Callers, NEW g \in Forms, NEW s \in Saves, Create(c, g, s)
    PROVE  IInv'
<1>1. /\ TypeOK /\ Shapes /\ Honest /\ Untouched
      /\ \A f \in Forms : AnsweredAt(f) /\ OpenAt(f) /\ CurrentAt(f)
  BY DEF IInv
<1>2. /\ UNCHANGED <<disk, loader, closed, stops, answers, behind, lossy, unread>>
      /\ age[g] = "unborn" /\ save[s].at = "idle"
      /\ form' = [form EXCEPT ![g] = "pending"] /\ age' = [age EXCEPT ![g] = "fresh"]
      /\ caller' = [caller EXCEPT ![c] = "idle"]
  BY DEF Create, history
<1> DEFINE members == InMap \cup {g}
<1>3. Begun(s, members, {})
  <2>1. members \in SUBSET Forms /\ save' = Begin(save, s, members)
    BY DEF InMap, Create
  <2> HIDE DEF members
  <2> QED BY <1>1, <1>2, <2>1, BeginFacts
<1>4. /\ form' \in [Forms -> Statuses] /\ form'[g] = "pending" /\ \A f \in Forms \ {g} : form'[f] = form[f]
  BY <1>1, <1>2, StatusTypes DEF Statuses
<1>5. /\ age' \in [Forms -> {"unborn", "fresh", "due"}]
      /\ age'[g] = "fresh" /\ \A f \in Forms \ {g} : age'[f] = age[f]
  BY <1>1, <1>2, StatusTypes
<1>6. TypeOK'
  BY <1>1, <1>2, <1>3, <1>4, <1>5 DEF TypeOK, Begun
<1>7. /\ form[g] = "none" /\ answers[g] = 0 /\ g \notin disk \cup loader.read
  BY <1>1, <1>2 DEF Honest
<1>8. InMap' = members /\ Pending' = Pending \cup {g} /\ Pending \subseteq InMap
  BY <1>4, <1>7 DEF InMap, Pending
<1>9. WholeMap' = WholeMap /\ Loading' = Loading
  BY <1>2 DEF WholeMap, Loading
<1> HIDE DEF members
<1>10. Shapes'
  BY <1>1, <1>3, <1>8, <1>9, BegunShapes DEF members
<1>11. Honest'
  <2>1. \A t \in Saves : save'[t].text \in {save[t].text, {}}
    BY <1>3 DEF Begun, Kept
  <2> QED BY <1>1, <1>2, <1>4, <1>5, <2>1 DEF Honest
<1>12. Untouched'
  <2> SUFFICES ASSUME Loading, ~behind
               PROVE  /\ \A f \in disk : form'[f] = "none"
                      /\ \A f \in Pending' : \E u \in InFlight' : f \in Holds(u)'
    BY <1>1, <1>2, <1>9 DEF Untouched
  <2>1. \A f \in disk : form'[f] = "none"
    BY <1>1, <1>4, <1>7, StatusTypes DEF Untouched
  <2>2. ASSUME NEW f \in Pending'
        PROVE  \E u \in InFlight' : f \in Holds(u)'
    <3>1. CASE f = g
      BY <1>1, <1>3, <3>1, BegunFacts DEF members
    <3>2. CASE f \in Pending
      <4>1. PICK u \in InFlight : f \in Holds(u)
        BY <1>1, <3>2 DEF Untouched
      <4> QED BY <1>1, <1>3, <4>1, BegunFacts
    <3> QED BY <1>8, <3>1, <3>2
  <2> QED BY <2>1, <2>2
<1>13. ASSUME NEW f \in Forms
       PROVE  CurrentAt(f)'
  BY <1>1, <1>3, <1>8, BegunCurrent DEF members
<1>14. ASSUME NEW f \in Forms, f # g
       PROVE  AnsweredAt(f)' /\ OpenAt(f)'
  <2>1. AnsweredAt(f)'
    BY <1>1, <1>2, <1>3, <1>4, <1>14, BegunAnswered
  <2>2. form[f] = "pending" => f \in members
    BY <1>8 DEF Pending, members
  <2>3. OpenAt(f)'
    BY <1>1, <1>2, <1>3, <1>4, <1>5, <1>14, <2>2, BegunOpen
  <2> QED BY <2>1, <2>3
<1>15. AnsweredAt(g)'
  BY <1>2, <1>7 DEF AnsweredAt
<1>16. OpenAt(g)'
  <2>1. g \in Holds(s)' /\ s \in InFlight' /\ save'[s].older = InFlight /\ InFlight' = InFlight \cup {s}
    BY <1>1, <1>3, BegunFacts DEF members
  <2>2. \A t \in InFlight' : g \notin Holds(t)' => t \in save'[s].older
    BY <2>1 DEF Holds
  <2> QED BY <1>4, <2>1, <2>2 DEF OpenAt
<1> QED BY <1>6, <1>10, <1>11, <1>12, <1>13, <1>14, <1>15, <1>16 DEF IInv

LEMMA AnsweringKeeps ==
    ASSUME IInv, NEW g \in Forms, NEW s \in Saves, Answering(g, s)
    PROVE  IInv'
<1>1. /\ TypeOK /\ Shapes /\ Honest /\ Untouched
      /\ \A f \in Forms : AnsweredAt(f) /\ OpenAt(f) /\ CurrentAt(f)
  BY DEF IInv
<1>2. /\ UNCHANGED <<age, disk, loader, closed, caller, stops, behind, lossy, unread>>
      /\ form[g] = "pending" /\ save[s].at = "idle"
      /\ form' = [form EXCEPT ![g] = "answered"] /\ answers' = Count(g)
  BY DEF Answering
<1>3. Begun(s, InMap, {})
  <2>1. InMap \in SUBSET Forms /\ save' = Begin(save, s, InMap)
    BY DEF InMap, Answering
  <2> QED BY <1>1, <1>2, <2>1, BeginFacts
<1>4. /\ form' \in [Forms -> Statuses] /\ form'[g] = "answered" /\ \A f \in Forms \ {g} : form'[f] = form[f]
  BY <1>1, <1>2, StatusTypes DEF Statuses
<1>5. /\ answers' \in [Forms -> 0..2] /\ answers'[g] > 0 /\ (answers[g] = 0 => answers'[g] = 1)
      /\ \A f \in Forms \ {g} : answers'[f] = answers[f]
  BY <1>1, <1>2, CountFacts
<1>6. TypeOK'
  BY <1>1, <1>2, <1>3, <1>4, <1>5 DEF TypeOK, Begun
<1>7. InMap' = InMap /\ Pending' = Pending \ {g} /\ Pending \subseteq InMap
  BY <1>2, <1>4 DEF InMap, Pending
<1>8. WholeMap' = WholeMap /\ Loading' = Loading
  BY <1>2 DEF WholeMap, Loading
<1>9. Shapes'
  BY <1>1, <1>3, <1>7, <1>8, BegunShapes
<1>10. Honest'
  <2>1. \A t \in Saves : save'[t].text \in {save[t].text, {}}
    BY <1>3 DEF Begun, Kept
  <2> QED BY <1>1, <1>2, <1>4, <1>5, <2>1 DEF Honest
<1>11. Untouched'
  <2> SUFFICES ASSUME Loading, ~behind
               PROVE  /\ \A f \in disk : form'[f] = "none" /\ (~lossy => answers'[f] = 0)
                      /\ \A f \in Pending' : \E u \in InFlight' : f \in Holds(u)'
    BY <1>1, <1>2, <1>8 DEF Untouched
  <2>1. g \notin disk
    BY <1>1, <1>2 DEF Untouched
  <2>2. \A f \in disk : form'[f] = "none" /\ (~lossy => answers'[f] = 0)
    BY <1>1, <1>4, <1>5, <2>1, StatusTypes DEF Untouched
  <2>3. ASSUME NEW f \in Pending'
        PROVE  \E u \in InFlight' : f \in Holds(u)'
    <3>1. PICK u \in InFlight : f \in Holds(u)
      BY <1>1, <1>7 DEF Untouched
    <3> QED BY <1>1, <1>3, <3>1, BegunFacts
  <2> QED BY <2>2, <2>3
<1>12. ASSUME NEW f \in Forms
       PROVE  CurrentAt(f)'
  BY <1>1, <1>3, <1>7, BegunCurrent
<1>13. ASSUME NEW f \in Forms, f # g
       PROVE  AnsweredAt(f)' /\ OpenAt(f)'
  <2>1. AnsweredAt(f)'
    BY <1>1, <1>2, <1>3, <1>4, <1>5, <1>13, BegunAnswered
  <2>2. form[f] = "pending" => f \in InMap
    BY <1>7 DEF Pending
  <2>3. OpenAt(f)'
    BY <1>1, <1>2, <1>3, <1>4, <1>5, <1>13, <2>2, BegunOpen
  <2> QED BY <2>1, <2>3
<1>14. OpenAt(g)'
  BY <1>5 DEF OpenAt
<1>15. AnsweredAt(g)'
  <2>1. save'[s].text = {} /\ s \in InFlight' /\ save'[s].older = InFlight /\ InFlight' = InFlight \cup {s}
    BY <1>1, <1>3, BegunFacts
  <2>2. ~lossy => answers[g] = 0
    <3>1. answers[g] \in 0..2
      BY <1>1, StatusTypes
    <3> QED BY <1>1, <1>2, <3>1 DEF AnsweredAt
  <2> QED BY <1>2, <1>4, <1>5, <2>1, <2>2 DEF AnsweredAt
<1> QED BY <1>6, <1>9, <1>10, <1>11, <1>12, <1>13, <1>14, <1>15 DEF IInv

LEMMA CleanupKeeps ==
    ASSUME IInv, NEW s \in Saves, NEW P \in SUBSET Forms, Cleanup(s, P)
    PROVE  IInv'
<1>1. /\ TypeOK /\ Shapes /\ Honest /\ Untouched
      /\ \A f \in Forms : AnsweredAt(f) /\ OpenAt(f) /\ CurrentAt(f)
  BY DEF IInv
<1>2. /\ UNCHANGED <<age, disk, loader, closed, caller, stops, answers, behind, lossy, unread>>
      /\ save[s].at = "idle" /\ \A f \in P : age[f] = "due"
  BY DEF Cleanup, history
<1>3. Begun(s, InMap \ P, P)
  BY <1>1, <1>2, PurgeFacts DEF Cleanup
<1>4. /\ form' \in [Forms -> Statuses]
      /\ \A f \in Forms : form'[f] = IF f \in P THEN "none" ELSE IF f \in Due THEN "expired" ELSE form[f]
  <2>1. form' = [f \in Forms |-> IF f \in P THEN "none" ELSE Expired(Due)[f]]
    BY DEF Cleanup
  <2> QED BY <1>1, <2>1, ExpiredFacts DEF Statuses
<1>5. TypeOK'
  BY <1>1, <1>2, <1>3, <1>4 DEF TypeOK, Begun
<1>6. Due \subseteq Pending /\ Pending \subseteq InMap /\ \A f \in Due : age[f] = "due"
  BY DEF Due, Pending, InMap
<1>7. InMap' = InMap \ P /\ Pending' = Pending \ (P \cup Due)
  BY <1>4 DEF InMap, Pending, Due
<1>8. WholeMap' = WholeMap /\ Loading' = Loading
  BY <1>2 DEF WholeMap, Loading
<1>9. Shapes'
  BY <1>1, <1>3, <1>7, <1>8, BegunShapes
<1>10. Honest'
  <2>1. \A t \in Saves : save'[t].text \in {save[t].text, {}}
    BY <1>3 DEF Begun, Kept
  <2>2. \A f \in Due : form[f] = "pending"
    BY DEF Due, Pending
  <2> QED BY <1>1, <1>2, <1>4, <1>6, <2>1, <2>2 DEF Honest
<1>11. Untouched'
  <2> SUFFICES ASSUME Loading, ~behind
               PROVE  /\ \A f \in disk : form'[f] = "none"
                      /\ \A f \in Pending' : \E u \in InFlight' : f \in Holds(u)'
    BY <1>1, <1>2, <1>8 DEF Untouched
  <2>1. \A f \in disk : form'[f] = "none"
    BY <1>1, <1>4, <1>6, StatusTypes DEF Untouched, Pending
  <2>2. ASSUME NEW f \in Pending'
        PROVE  \E u \in InFlight' : f \in Holds(u)'
    <3>1. f \notin P
      BY <1>7
    <3>2. PICK u \in InFlight : f \in Holds(u)
      BY <1>1, <1>7 DEF Untouched
    <3> QED BY <1>1, <1>3, <3>1, <3>2, BegunFacts
  <2> QED BY <2>1, <2>2
<1>12. ASSUME NEW f \in Forms
       PROVE  CurrentAt(f)'
  BY <1>1, <1>3, <1>6, <1>7, BegunCurrent
<1>13. ASSUME NEW f \in Forms
       PROVE  AnsweredAt(f)'
  <2>1. form'[f] # "pending" \/ form'[f] = form[f]
    BY <1>4
  <2> QED BY <1>1, <1>2, <1>3, <2>1, BegunAnswered
<1>14. ASSUME NEW f \in Forms
       PROVE  OpenAt(f)'
  <2>1. CASE age[f] = "fresh"
    <3>1. f \notin P /\ f \notin Due /\ form'[f] = form[f]
      BY <1>2, <1>4, <1>6, <2>1
    <3>2. form[f] = "pending" => f \in InMap \ P
      BY <1>6, <3>1 DEF Pending
    <3> QED BY <1>1, <1>2, <1>3, <3>1, <3>2, BegunOpen
  <2>2. CASE age[f] # "fresh"
    BY <1>2, <2>2 DEF OpenAt
  <2> QED BY <2>1, <2>2
<1> QED BY <1>5, <1>9, <1>10, <1>11, <1>12, <1>13, <1>14 DEF IInv

--------------------------------------------------------------------------------
(* The map lets go of forms. *)

LEMMA ReleasedShapes ==
    ASSUME TypeOK, NEW F \in SUBSET Forms, save' = Released(F)
    PROVE  /\ InFlight' = InFlight
           /\ \A t \in Saves :
                /\ Ranked(t)
                /\ \A f \in Forms : form[f] # "pending" => (f \in save'[t].text <=> f \in save[t].text)
                /\ \A f \in Pending : f \in Holds(t) <=> f \in Holds(t)'
BY ReleasedFacts DEF InFlight, Holds, Pending

LEMMA ReleasedAnswered ==
    ASSUME TypeOK, NEW F \in SUBSET Forms, save' = Released(F), NEW f \in Forms, AnsweredAt(f),
           (~lossy' /\ answers[f] > 0) => (~lossy /\ form'[f] # "pending"),
           UNCHANGED <<disk, behind, answers>>
    PROVE  AnsweredAt(f)'
BY ReleasedShapes DEF AnsweredAt, Ranked, InFlight

LEMMA LoaderMergesKeeps ==
    ASSUME IInv, LoaderMerges
    PROVE  IInv'
<1> DEFINE kept == {f \in loader.read : age[f] = "fresh"}
<1>1. /\ TypeOK /\ Shapes /\ Honest /\ Untouched
      /\ \A f \in Forms : AnsweredAt(f) /\ OpenAt(f) /\ CurrentAt(f)
  BY DEF IInv
<1>2. /\ UNCHANGED <<closed, caller, age, disk, stops, answers, behind, unread>>
      /\ loader.at = "merging" /\ lossy' = (lossy \/ behind)
      /\ form' = [f \in Forms |-> IF f \in kept THEN "pending" ELSE form[f]]
      /\ save' = Released(kept) /\ loader' = [at |-> "done", read |-> {}]
  BY DEF LoaderMerges
<1>3. kept \in SUBSET Forms /\ \A f \in kept : age[f] = "fresh" /\ f \in loader.read
  BY <1>1, StatusTypes
<1>4. /\ form' \in [Forms -> Statuses]
      /\ \A f \in Forms : form'[f] = IF f \in kept THEN "pending" ELSE form[f]
  BY <1>1, <1>2, StatusTypes DEF Statuses
<1>5. loader' \in [at : {"reading", "merging", "done"}, read : SUBSET Forms]
      /\ loader'.at = "done" /\ loader'.read = {}
  BY <1>2
<1>6. lossy' \in BOOLEAN
  BY <1>1, <1>2, StatusTypes
<1>7. kept = {f \in loader.read : age[f] = "fresh"}
  OBVIOUS
<1> HIDE DEF kept
<1>8. /\ save' \in [Saves -> SaveStates] /\ InFlight' = InFlight
      /\ \A t \in Saves :
            /\ save'[t].at = save[t].at /\ Ranked(t)
            /\ save'[t].objects = save[t].objects \ kept
            /\ save'[t].text = save[t].text \cup (save[t].objects \cap kept \cap Pending)
            /\ \A f \in Forms : form[f] # "pending" => (f \in save'[t].text <=> f \in save[t].text)
            /\ \A f \in Pending : f \in Holds(t) <=> f \in Holds(t)'
  BY <1>1, <1>2, <1>3, ReleasedFacts, ReleasedShapes
<1>9. TypeOK'
  BY <1>1, <1>2, <1>4, <1>5, <1>6, <1>8 DEF TypeOK
<1>10. Loading /\ ~Loading' /\ InMap \subseteq InMap' /\ Pending \subseteq Pending' /\ kept \subseteq Pending'
  BY <1>2, <1>3, <1>4, <1>5 DEF Loading, InMap, Pending
<1>11. Shapes'
  BY <1>1, <1>8, <1>10 DEF Shapes
<1>12. Honest'
  <2>1. \A f \in Forms : age[f] = "unborn" => form[f] = "none" /\ f \notin kept
    BY <1>1, <1>3 DEF Honest
  <2> QED BY <1>1, <1>2, <1>4, <1>5, <1>8, <2>1 DEF Honest
<1>13. Untouched'
  BY <1>10 DEF Untouched
<1>14. ~lossy' => ~lossy /\ ~behind /\ loader.read \subseteq disk
  BY <1>1, <1>2, <1>10 DEF Untouched
<1>15. ASSUME NEW f \in Forms
       PROVE  AnsweredAt(f)'
  <2>1. ASSUME ~lossy', answers[f] > 0
        PROVE  ~lossy /\ form'[f] # "pending"
    <3>1. f \notin disk
      BY <1>1, <1>10, <1>14, <2>1 DEF Untouched
    <3>2. f \notin kept
      BY <1>3, <1>14, <2>1, <3>1
    <3> QED BY <1>1, <1>4, <1>14, <2>1, <3>2 DEF AnsweredAt
  <2> QED BY <1>1, <1>2, <1>3, <2>1, ReleasedAnswered
<1>16. ASSUME NEW f \in Forms
       PROVE  OpenAt(f)'
  <2> SUFFICES ASSUME ~lossy', age[f] = "fresh", answers[f] = 0, f \notin unread
               PROVE  OpenAt(f)'
    BY <1>2 DEF OpenAt
  <2>1. ~closed => form'[f] = "pending"
    BY <1>1, <1>2, <1>4, <1>7, <1>14 DEF OpenAt
  <2>2. \A t \in Saves : f \in Holds(t) => f \in Holds(t)'
    <3>1. \A t \in Saves : f \in save[t].objects => f \in Pending
      BY <1>1, OpenIsPending DEF Shapes, InMap, Pending
    <3>2. \A t \in Saves : f \in save[t].text => f \in save'[t].text
      BY <1>8
    <3> QED BY <1>8, <3>1, <3>2 DEF Holds
  <2> QED BY <1>1, <1>2, <1>8, <1>10, <1>14, <2>1, <2>2 DEF OpenAt, WholeMap, Ranked, InFlight
<1>17. ASSUME NEW f \in Forms
       PROVE  CurrentAt(f)'
  <2>1. \A t \in InFlight' : save'[t].late
    BY <1>1, <1>8, <1>10 DEF Shapes, InFlight, Ranked
  <2>2. ASSUME ~behind
        PROVE  Agrees(disk, f)' \/ \E u \in InFlight' : Agrees(Outcome(u), f)'
    <3>1. loader.read \subseteq disk /\ \A d \in disk : form[d] = "none"
      BY <1>1, <1>2, <1>10, <2>2 DEF Untouched
    <3>2. CASE f \in kept
      <4>1. f \in disk' /\ form'[f] = "pending"
        BY <1>2, <1>3, <1>4, <3>1, <3>2
      <4> QED BY <4>1 DEF Agrees
    <3>3. CASE f \notin kept /\ form[f] = "pending"
      <4>1. PICK u \in InFlight : f \in Holds(u)
        BY <1>1, <1>10, <2>2, <3>3 DEF Untouched, Pending
      <4>2. f \in Outcome(u)' /\ form'[f] = "pending"
        BY <1>4, <1>8, <3>3, <4>1 DEF Outcome, Holds, Pending, InFlight
      <4> QED BY <1>8, <4>1, <4>2 DEF Agrees
    <3>4. CASE f \notin kept /\ form[f] # "pending"
      <4>1. form'[f] = form[f] /\ (form[f] = "answered" => f \notin disk')
        BY <1>2, <1>4, <3>1, <3>4
      <4> QED BY <3>4, <4>1 DEF Agrees
    <3> QED BY <3>2, <3>3, <3>4
  <2> QED BY <1>2, <2>1, <2>2 DEF CurrentAt
<1> QED BY <1>9, <1>11, <1>12, <1>13, <1>15, <1>16, <1>17 DEF IInv

LEMMA ShutdownKeeps ==
    ASSUME IInv, Shutdown
    PROVE  IInv'
<1>1. /\ TypeOK /\ Shapes /\ Honest /\ Untouched
      /\ \A f \in Forms : AnsweredAt(f) /\ OpenAt(f) /\ CurrentAt(f)
  BY DEF IInv
<1>2. /\ UNCHANGED <<loader, caller, age, disk, stops, answers, behind, lossy, unread>>
      /\ closed' = TRUE /\ form' = Nowhere /\ save' = Released(Forms)
  BY DEF Shutdown, history
<1>3. form' \in [Forms -> Statuses] /\ \A f \in Forms : form'[f] = "none"
  BY <1>2 DEF Nowhere, Statuses
<1>4. /\ save' \in [Saves -> SaveStates] /\ InFlight' = InFlight
      /\ \A t \in Saves :
            /\ save'[t].at = save[t].at /\ Ranked(t)
            /\ save'[t].objects = save[t].objects \ Forms
            /\ save'[t].text = save[t].text \cup (save[t].objects \cap Forms \cap Pending)
  BY <1>1, <1>2, ReleasedFacts, ReleasedShapes
<1>5. closed' \in BOOLEAN
  BY <1>2
<1>6. TypeOK'
  BY <1>1, <1>2, <1>3, <1>4, <1>5 DEF TypeOK
<1>7. ~WholeMap' /\ Loading' = Loading /\ Pending' = {} /\ InMap' = {}
  BY <1>2, <1>3 DEF WholeMap, Loading, Pending, InMap
<1>8. \A t \in Saves : save'[t].objects = {}
  BY <1>1, <1>4, StatusTypes, SaveFields
<1>9. Shapes'
  BY <1>1, <1>4, <1>7, <1>8 DEF Shapes, Ranked
<1>10. Honest'
  BY <1>1, <1>2, <1>3, <1>4 DEF Honest, Pending
<1>11. Untouched'
  BY <1>1, <1>2, <1>3, <1>7, StatusTypes DEF Untouched
<1>12. ASSUME NEW f \in Forms
       PROVE  AnsweredAt(f)'
  BY <1>1, <1>2, <1>3, ReleasedAnswered
<1>13. ASSUME NEW f \in Forms
       PROVE  OpenAt(f)'
  <2> SUFFICES ASSUME ~lossy, age[f] = "fresh", answers[f] = 0, f \notin unread
               PROVE  OpenAt(f)'
    BY <1>2 DEF OpenAt
  <2>1. \A t \in Saves : f \in Holds(t) => f \in Holds(t)'
    <3>1. \A t \in Saves : f \in save[t].objects => f \in Pending
      BY <1>1, OpenIsPending DEF Shapes, InMap, Pending
    <3> QED BY <1>4, <3>1 DEF Holds
  <2> QED BY <1>1, <1>2, <1>4, <1>7, <2>1 DEF OpenAt, Ranked, InFlight
<1>14. \A f \in Forms : CurrentAt(f)'
  BY <1>7 DEF CurrentAt
<1> QED BY <1>6, <1>9, <1>10, <1>11, <1>12, <1>13, <1>14 DEF IInv

LEMMA RestartKeeps ==
    ASSUME IInv, Restart
    PROVE  IInv'
<1>1. /\ TypeOK /\ Honest /\ \A f \in Forms : AnsweredAt(f) /\ OpenAt(f)
  BY DEF IInv
<1>2. /\ UNCHANGED <<age, disk, answers, unread>> /\ stops < MaxStops /\ stops' = stops + 1
      /\ form' = Nowhere /\ save' = [s \in Saves |-> IdleSave] /\ loader' = NotReading
      /\ closed' = FALSE /\ caller' = [c \in Callers |-> "idle"]
      /\ lossy' = (lossy \/ behind \/ InFlight # {}) /\ behind' = FALSE
  BY DEF Restart
<1>3. form' \in [Forms -> Statuses] /\ \A f \in Forms : form'[f] = "none"
  BY <1>2 DEF Nowhere, Statuses
<1>4. save' \in [Saves -> SaveStates] /\ \A s \in Saves : save'[s] = IdleSave
  BY <1>2, IdleSaveFacts
<1>5. /\ loader' \in [at : {"reading", "merging", "done"}, read : SUBSET Forms]
      /\ loader'.at = "reading" /\ loader'.read = {}
  BY <1>2 DEF NotReading
<1>6. closed' \in BOOLEAN /\ behind' \in BOOLEAN /\ lossy' \in BOOLEAN
  BY <1>1, <1>2, StatusTypes
<1>7. stops' \in 0..MaxStops /\ caller' \in [Callers -> {"idle", "waiting"}]
  BY <1>1, <1>2, StopsAssumption, StatusTypes
<1>8. TypeOK'
  BY <1>1, <1>2, <1>3, <1>4, <1>5, <1>6, <1>7 DEF TypeOK
<1>9. InFlight' = {} /\ ~WholeMap' /\ Pending' = {}
  BY <1>3, <1>4, <1>5, IdleSaveFacts DEF InFlight, WholeMap, Pending
<1>10. \A s \in Saves : save'[s].at = "idle" /\ save'[s].objects = {} /\ save'[s].text = {}
  BY <1>4, IdleSaveFacts
<1>11. Shapes'
  BY <1>10 DEF Shapes
<1>12. Honest'
  BY <1>1, <1>2, <1>3, <1>5, <1>10 DEF Honest
<1>13. ASSUME ~lossy'
       PROVE  ~lossy /\ ~behind /\ InFlight = {}
  BY <1>2, <1>13
<1>14. \A f \in Forms : (~lossy' /\ answers[f] > 0) => answers[f] = 1 /\ f \notin disk
  BY <1>1, <1>13 DEF AnsweredAt
<1>15. \A f \in Forms : (~lossy' /\ age[f] = "fresh" /\ answers[f] = 0 /\ f \notin unread) => f \in disk
  BY <1>1, <1>13 DEF OpenAt
<1>16. Untouched'
  <2>1. \A f \in disk : f \in Forms /\ answers[f] \in 0..2
    BY <1>1, StatusTypes
  <2> QED BY <1>2, <1>3, <1>5, <1>9, <1>14, <2>1 DEF Untouched
<1>17. ASSUME NEW f \in Forms
       PROVE  AnsweredAt(f)' /\ OpenAt(f)' /\ CurrentAt(f)'
  <2>1. AnsweredAt(f)'
    BY <1>2, <1>3, <1>9, <1>14 DEF AnsweredAt
  <2>2. OpenAt(f)'
    BY <1>2, <1>5, <1>9, <1>15 DEF OpenAt
  <2> QED BY <1>9, <2>1, <2>2 DEF CurrentAt
<1> QED BY <1>8, <1>11, <1>12, <1>16, <1>17 DEF IInv

LEMMA StutterKeeps ==
    ASSUME IInv, UNCHANGED vars
    PROVE  IInv'
<1>1. UNCHANGED <<form, loader, closed, caller, age, disk, save, stops, answers, behind, lossy, unread>>
  BY DEF vars, memory, history
<1>2. TypeOK' /\ Shapes' /\ Honest' /\ Untouched'
  BY <1>1 DEF IInv, TypeOK, Shapes, Honest, Untouched, Loading, InMap, Pending, InFlight, Holds
<1>3. ASSUME NEW f \in Forms
      PROVE  AnsweredAt(f)' /\ OpenAt(f)' /\ CurrentAt(f)'
  BY <1>1 DEF IInv, AnsweredAt, OpenAt, CurrentAt, InFlight, Holds, WholeMap, Loading, Agrees, Outcome, Pending
<1> QED BY <1>2, <1>3 DEF IInv

LEMMA Invariant == Spec => []IInv
<1>1. IInv /\ [Next]_vars => IInv'
  <2>1. IInv => TypeOK
    BY DEF IInv
  <2> QED BY <2>1, Steps, ExpiringKeeps, StringifyKeeps, EndingKeeps, CleanupKeeps, CreateKeeps, AnsweringKeeps,
             AgeKeeps, LoaderReadsKeeps, LoaderMergesKeeps, ShutdownKeeps, RestartKeeps, StutterKeeps
<1> QED BY <1>1, InitInv, PTL DEF Spec

--------------------------------------------------------------------------------

(* The types hold. *)
THEOREM TypeCorrect == Spec => []TypeOK
<1>1. IInv => TypeOK
  BY DEF IInv
<1> QED BY <1>1, Invariant, PTL

(* The file follows the map through any number of concurrent saves, and says  *)
(* so itself: it is wrong only while a save is under way that will correct it. *)
THEOREM DiskFollows == Spec => []DiskFollowsMemory
<1>1. IInv => DiskFollowsMemory
  BY DEF IInv, CurrentAt, DiskFollowsMemory
<1> QED BY <1>1, Invariant, PTL

(* A form is answered once, over any number of restarts, late loads and       *)
(* shutdowns, unless one of them found the file behind.                       *)
THEOREM AnswersAreUnique == Spec => []AnsweredOnce
<1>1. IInv => AnsweredOnce
  <2> SUFFICES ASSUME IInv, ~lossy, NEW f \in Forms
               PROVE  answers[f] <= 1
    BY DEF AnsweredOnce
  <2>1. answers[f] \in 0..2 /\ AnsweredAt(f)
    BY StatusTypes DEF IInv
  <2> QED BY <2>1 DEF AnsweredAt
<1> QED BY <1>1, Invariant, PTL

(* An open form can be answered whenever the loader is done, over any number  *)
(* of restarts, unless one of them found the file behind or failed to read it *)
(* with the form in it.                                                       *)
THEOREM OpenFormsSurvive == Spec => []OpenFormSurvives
<1>1. IInv => OpenFormSurvives
  BY DEF IInv, OpenAt, OpenFormSurvives
<1> QED BY <1>1, Invariant, PTL

================================================================================
