------------------------------- MODULE HITLForms -------------------------------
(***************************************************************************)
(* HITLFormService: the forms that ask a human about one feature of one     *)
(* project, the file hitl-forms.json and the saves that write it.           *)
(*                                                                         *)
(* create, submit, cancel and cleanup change the map and start a save that  *)
(* nobody waits for and nothing serialises.  A save holds the form objects, *)
(* not their contents: it makes the directory, then turns the objects into  *)
(* text, and at some later time the rename lands.  The loader that the      *)
(* constructor starts reads the file and merges it into the map while       *)
(* requests are already served, and shutdown empties the map while they     *)
(* still are.  Code between two awaits is one action.                       *)
(***************************************************************************)
EXTENDS Naturals, FiniteSets

CONSTANTS
    Forms,       \* form ids; an id is used once
    Callers,     \* calls of create under way at once
    Saves,       \* bound: saves under way at once
    MaxStops     \* bound: crashes and shutdowns

ASSUME StopsAssumption == MaxStops \in Nat

VARIABLES
    form,      \* the map: status of each form, "none" outside the map
    age,       \* "unborn", "fresh", or "due": past expiresAt
    disk,      \* hitl-forms.json: the forms it calls pending; nobody reads its other entries
    save,      \* each save: its stage, its objects, its text and its place in the order
    loader,    \* loadPersistedForms: its stage and the pending forms it has read
    closed,    \* shutdown has run, the process has not ended
    caller,    \* calls of create waiting for the settings
    stops,     \* crashes and shutdowns so far
    answers,   \* history: submissions and cancellations routed for each form
    behind,    \* history: the last save to end was not the newest whole one
    lossy,     \* history: the process ended, or merged, with the file behind
    unread     \* history: the pending forms of a file that could not be read when it was due

memory == <<form, loader, closed, caller>>
history == <<answers, behind, lossy, unread>>
vars == <<memory, age, disk, save, stops, history>>

(* "answered" is submitted or cancelled. *)
Statuses == {"none", "pending", "answered", "expired"}
Nowhere == [f \in Forms |-> "none"]

SaveStates == [
    at : {"idle", "mkdir", "rename"},
    objects : SUBSET Forms, \* forms whose status is read when the text is made
    text : SUBSET Forms,    \* forms that are pending in the text, whatever happens to them
    late : BOOLEAN,         \* a younger save has ended, or it began before the loader or after shutdown
    older : SUBSET Saves]   \* the saves under way when it began

IdleSave == [at |-> "idle", objects |-> {}, text |-> {}, late |-> FALSE, older |-> {}]
NotReading == [at |-> "reading", read |-> {}]

Init ==
    /\ form = Nowhere /\ disk = {}
    /\ age = [f \in Forms |-> "unborn"]
    /\ save = [s \in Saves |-> IdleSave]
    /\ loader = NotReading /\ closed = FALSE
    /\ caller = [c \in Callers |-> "idle"]
    /\ stops = 0
    /\ answers = [f \in Forms |-> 0]
    /\ behind = FALSE /\ lossy = FALSE /\ unread = {}

--------------------------------------------------------------------------------
(* Saves *)

InFlight == {s \in Saves : save[s].at # "idle"}
WholeMap == loader.at = "done" /\ ~closed
InMap == {f \in Forms : form[f] # "none"}
Pending == {f \in Forms : form[f] = "pending"}

(* persistForm, or the end of cleanup: save s begins, with the objects of members. *)
Begin(saves, s, members) ==
    [saves EXCEPT ![s] =
        [at |-> "mkdir", objects |-> members, text |-> {}, late |-> ~WholeMap, older |-> InFlight]]

(* The map lets go of the objects of F; the saves under way keep them as they are. *)
Released(F) ==
    [s \in Saves |-> [save[s] EXCEPT !.objects = @ \ F,
                                     !.text = @ \cup (save[s].objects \cap F \cap Pending)]]

(* Save s has ended; the older ones still under way have been overtaken. *)
Ended(s) ==
    [t \in Saves |-> IF t = s THEN IdleSave
                     ELSE [save[t] EXCEPT !.late = @ \/ t \in save[s].older,
                                          !.older = @ \ {s}]]

(* The directory exists; JSON.stringify reads the objects. *)
Stringify(s) ==
    /\ save[s].at = "mkdir"
    /\ save' = [save EXCEPT ![s].at = "rename", ![s].objects = {},
                            ![s].text = @ \cup (save[s].objects \cap Pending)]
    /\ UNCHANGED <<memory, age, disk, stops, history>>

Land(s) ==
    /\ save[s].at = "rename"
    /\ disk' = save[s].text
    /\ save' = Ended(s)
    /\ behind' = save[s].late
    /\ UNCHANGED <<memory, age, stops, answers, lossy, unread>>

(* mkdir, writeFile or rename throws: logged, and the save is given up. *)
SaveFails(s) ==
    /\ save[s].at # "idle"
    /\ save' = Ended(s)
    /\ behind' = TRUE
    /\ UNCHANGED <<memory, age, disk, stops, answers, lossy, unread>>

--------------------------------------------------------------------------------
(* Creation *)

Due == {f \in Pending : age[f] = "due"}
Expired(F) == [f \in Forms |-> IF f \in F THEN "expired" ELSE form[f]]

(* get, listPending, and a getByFeatureId that finds a pending form, expire what they *)
(* met on the way that is due, and save nothing.                                      *)
Peek(F) ==
    /\ F # {} /\ F \subseteq Due
    /\ form' = Expired(F)
    /\ UNCHANGED <<age, disk, save, loader, closed, caller, stops, history>>

(* getByFeatureId finds none: create is called and waits for the settings. *)
LookMisses(c) ==
    /\ caller[c] = "idle"
    /\ Pending = Due
    /\ form' = Expired(Due)
    /\ caller' = [caller EXCEPT ![c] = "waiting"]
    /\ UNCHANGED <<age, disk, save, loader, closed, stops, history>>

(* The routes and the authority agents call create without looking. *)
Request(c) ==
    /\ caller[c] = "idle"
    /\ caller' = [caller EXCEPT ![c] = "waiting"]
    /\ UNCHANGED <<form, loader, closed, age, disk, save, stops, history>>

(* featureFlags.hitlForms is off, or the input is refused. *)
Refused(c) ==
    /\ caller[c] # "idle"
    /\ caller' = [caller EXCEPT ![c] = "idle"]
    /\ UNCHANGED <<form, loader, closed, age, disk, save, stops, history>>

(* A mutant: the save is started before the form is in the map. *)
CreateSavedFirst(c, f, s) ==
    /\ caller[c] # "idle"
    /\ age[f] = "unborn" /\ save[s].at = "idle"
    /\ form' = [form EXCEPT ![f] = "pending"]
    /\ age' = [age EXCEPT ![f] = "fresh"]
    /\ save' = Begin(save, s, InMap)
    /\ caller' = [caller EXCEPT ![c] = "idle"]
    /\ UNCHANGED <<disk, loader, closed, stops, history>>

Create(c, f, s) ==
    /\ caller[c] # "idle"
    /\ age[f] = "unborn" /\ save[s].at = "idle"
    /\ form' = [form EXCEPT ![f] = "pending"]
    /\ age' = [age EXCEPT ![f] = "fresh"]
    /\ save' = Begin(save, s, InMap \cup {f})
    /\ caller' = [caller EXCEPT ![c] = "idle"]
    /\ UNCHANGED <<disk, loader, closed, stops, history>>

--------------------------------------------------------------------------------
(* Answers *)

Count(f) == [answers EXCEPT ![f] = IF @ < 2 THEN @ + 1 ELSE @]

(* A mutant: submit takes any form of the map. *)
SubmitAgain(f, s) ==
    /\ form[f] # "none" /\ age[f] = "fresh"
    /\ save[s].at = "idle"
    /\ form' = [form EXCEPT ![f] = "answered"]
    /\ save' = Begin(save, s, InMap)
    /\ answers' = Count(f)
    /\ UNCHANGED <<age, disk, loader, closed, caller, stops, behind, lossy, unread>>

(* submit up to its first await: the answer is in the map and routed, a save begins. *)
Submit(f, s) ==
    /\ form[f] = "pending" /\ age[f] = "fresh"
    /\ save[s].at = "idle"
    /\ form' = [form EXCEPT ![f] = "answered"]
    /\ save' = Begin(save, s, InMap)
    /\ answers' = Count(f)
    /\ UNCHANGED <<age, disk, loader, closed, caller, stops, behind, lossy, unread>>

(* A late submission only expires the form. *)
SubmitLate(f) ==
    /\ f \in Due
    /\ form' = Expired({f})
    /\ UNCHANGED <<age, disk, save, loader, closed, caller, stops, history>>

(* cancel does not look at the time. *)
Cancel(f, s) ==
    /\ form[f] = "pending" /\ save[s].at = "idle"
    /\ form' = [form EXCEPT ![f] = "answered"]
    /\ save' = Begin(save, s, InMap)
    /\ answers' = Count(f)
    /\ UNCHANGED <<age, disk, loader, closed, caller, stops, behind, lossy, unread>>

--------------------------------------------------------------------------------
(* Time, the cleanup timer, the loader and the end of the process *)

Age(f) ==
    /\ age[f] = "fresh"
    /\ age' = [age EXCEPT ![f] = "due"]
    /\ UNCHANGED <<memory, disk, save, stops, history>>

(* cleanup expires what is due and purges P, forms older than PURGE_AGE_MS (which no *)
(* TTL exceeds) that are not pending; it saves when it did either.                   *)
Cleanup(s, P) ==
    /\ ~closed /\ Due \cup P # {}
    /\ \A f \in P : age[f] = "due" /\ form[f] # "none"
    /\ save[s].at = "idle"
    /\ form' = [f \in Forms |-> IF f \in P THEN "none" ELSE Expired(Due)[f]]
    /\ save' = Begin([t \in Saves |-> [save[t] EXCEPT !.objects = @ \ P]], s, InMap \ P)
    /\ UNCHANGED <<age, disk, loader, closed, caller, stops, history>>

LoaderReads ==
    /\ loader.at = "reading"
    /\ loader' = [at |-> "merging", read |-> disk]
    /\ unread' = unread \ disk
    /\ UNCHANGED <<form, closed, caller, age, disk, save, stops, answers, behind, lossy>>

(* Any error of the read or of the parse is logged and taken for an empty list, and so *)
(* is one of the settings that name the projects: the file stays, the next save is     *)
(* of a map without its forms.                                                         *)
LoaderFails ==
    /\ loader.at = "reading"
    /\ loader' = [at |-> "merging", read |-> {}]
    /\ unread' = unread \cup disk
    /\ UNCHANGED <<form, closed, caller, age, disk, save, stops, answers, behind, lossy>>

(* A mutant: what it read replaces the map. *)
LoaderReplaces ==
    LET kept == {f \in loader.read : age[f] = "fresh"} IN
    /\ loader.at = "merging"
    /\ form' = [f \in Forms |-> IF f \in kept THEN "pending" ELSE "none"]
    /\ save' = Released(Forms)
    /\ loader' = [at |-> "done", read |-> {}]
    /\ lossy' = (lossy \/ behind)
    /\ UNCHANGED <<closed, caller, age, disk, stops, answers, behind, unread>>

(* What it read is set over what the map holds by now. *)
LoaderMerges ==
    LET kept == {f \in loader.read : age[f] = "fresh"} IN
    /\ loader.at = "merging"
    /\ form' = [f \in Forms |-> IF f \in kept THEN "pending" ELSE form[f]]
    /\ save' = Released(kept)
    /\ loader' = [at |-> "done", read |-> {}]
    /\ lossy' = (lossy \/ behind)
    /\ UNCHANGED <<closed, caller, age, disk, stops, answers, behind, unread>>

(* shutdown clears the map; the server answers requests until it has closed. *)
Shutdown ==
    /\ ~closed /\ stops < MaxStops
    /\ closed' = TRUE
    /\ form' = Nowhere
    /\ save' = Released(Forms)
    /\ UNCHANGED <<loader, caller, age, disk, stops, history>>

(* The process ends, by a crash or after shutdown, and starts again. *)
Restart ==
    /\ stops < MaxStops
    /\ stops' = stops + 1
    /\ form' = Nowhere
    /\ save' = [s \in Saves |-> IdleSave]
    /\ loader' = NotReading /\ closed' = FALSE
    /\ caller' = [c \in Callers |-> "idle"]
    /\ lossy' = (lossy \/ behind \/ InFlight # {})
    /\ behind' = FALSE
    /\ UNCHANGED <<age, disk, answers, unread>>

Next ==
    \/ \E s \in Saves : Stringify(s) \/ Land(s) \/ SaveFails(s)
    \/ \E F \in SUBSET Forms : Peek(F) \/ \E s \in Saves : Cleanup(s, F)
    \/ \E c \in Callers : LookMisses(c) \/ Request(c) \/ Refused(c)
    \/ \E c \in Callers, f \in Forms, s \in Saves : Create(c, f, s)
    \/ \E f \in Forms, s \in Saves : Submit(f, s) \/ Cancel(f, s)
    \/ \E f \in Forms : SubmitLate(f) \/ Age(f)
    \/ LoaderReads \/ LoaderFails \/ LoaderMerges \/ Shutdown \/ Restart

Spec == Init /\ [][Next]_vars

--------------------------------------------------------------------------------
(* Type invariant: every variable has its type; the lines above say what each is. *)
TypeOK ==
    /\ form \in [Forms -> Statuses]
    /\ age \in [Forms -> {"unborn", "fresh", "due"}]
    /\ disk \in SUBSET Forms
    /\ save \in [Saves -> SaveStates]
    /\ loader \in [at : {"reading", "merging", "done"}, read : SUBSET Forms]
    /\ closed \in BOOLEAN
    /\ caller \in [Callers -> {"idle", "waiting"}]
    /\ stops \in 0..MaxStops
    /\ answers \in [Forms -> 0..2]
    /\ behind \in BOOLEAN /\ lossy \in BOOLEAN /\ unread \in SUBSET Forms

(* A text, or a save under way, that calls F pending agrees with the map about f. *)
(* Expiry is not claimed: whoever reads a form works it out again.                *)
Agrees(F, f) ==
    /\ form[f] = "pending" => f \in F
    /\ form[f] = "answered" => f \notin F
Outcome(s) == save[s].text \cup (save[s].objects \cap Pending)

(* While the service runs and no save has failed or been overtaken since the last *)
(* good one, the file agrees with the map about every pending and every answered   *)
(* form, or a save under way will make it agree ("disk is the source of truth").   *)
DiskFollowsMemory ==
    WholeMap /\ ~behind =>
        \A f \in Forms : Agrees(disk, f) \/ \E s \in InFlight : Agrees(Outcome(s), f)

(* submit and cancel refuse a form that is not pending, across restarts too: an    *)
(* answer is routed twice only if a process ended, or loaded, with the file behind *)
(* or a save under way.                                                            *)
AnsweredOnce == ~lossy => \A f \in Forms : answers[f] <= 1

(* A form that nobody has answered and that is not due can be answered: it is in   *)
(* the map of the service whenever the loader has finished, however many restarts  *)
(* there were, unless one of them found the file behind or a save under way, or    *)
(* the form was in the file when a read of it failed.                               *)
OpenFormSurvives ==
    WholeMap /\ ~lossy =>
        \A f \in Forms \ unread : age[f] = "fresh" /\ answers[f] = 0 => form[f] = "pending"

================================================================================
