----------------------------- MODULE CloseoutWork -----------------------------
(***************************************************************************)
(* The daemon's list of tapes whose log owes a closeout or a finalization  *)
(* (crates/remanence-api/src/closeout_obligation.rs), the dispatcher that  *)
(* scans the logs and claims entries, the attempts it spawns               *)
(* (service_closeout_obligation, mount.rs), and the wakes that arrive      *)
(* meanwhile.                                                              *)
(*                                                                         *)
(* The logs are the authority and survive a restart; everything else here  *)
(* is lost with the process.  A log is abstracted to whether work is due   *)
(* on it, and what stands in the way of a tape's work to one obstacle.  A  *)
(* tape has one life here (the code's key is a tape and an incarnation).   *)
(* Time is left out: an entry may be claimed before its backoff is over,   *)
(* and a scan may start at any turn of the dispatcher.                     *)
(***************************************************************************)
EXTENDS Integers, FiniteSets

CONSTANTS
    Tapes, Libraries,
    MediaLimit,  \* media failures that park an entry: 3 in `failed`
    Home,        \* bound: the library every cartridge is in at first
    Touched,     \* bound: tapes that are obstructed, opened, moved or retired
    MaxEvents    \* bound: what clients, operators and passing faults do

ASSUME WorkAssumption ==
    /\ IsFiniteSet(Tapes) /\ IsFiniteSet(Libraries)
    /\ MediaLimit \in Nat \ {0}
    /\ Home \in Libraries /\ Touched \subseteq Tapes
    /\ MaxEvents \in Nat

VARIABLES
    due,         \* the log: closeout_due, finalization_due or prepared
    retired,     \* catalog: the tape is retired
    obstacle,    \* what refuses the tape's work
    place,       \* the library that holds the cartridge
    entries,     \* WorkList.entries
    libraries,   \* WorkList.libraries: libraries with a LibraryAttempt
    owner,       \* tape_reservations and sessions of the drive pool
    attempt,     \* service_claimed of a tape, up to the drop of its Attempt
    refresh,     \* service_claimed after the drop: what it read of the tape
    client,      \* a session, or a CloseoutTape call, on a tape
    loop,        \* the dispatcher of `spawn`
    seen,        \* what its scan read of each tape
    moved,       \* tapes whose barcode changed library since its last turn
    notified,    \* the permit of WorkList.wake
    shutdown,    \* readiness_shutdown
    events       \* counts up to MaxEvents

log == <<due, retired>>
dispatcher == <<loop, seen, moved>>
vars == <<log, obstacle, place, entries, libraries, owner, attempt, refresh,
          client, dispatcher, notified, shutdown, events>>

(* "released": the fence is released and the list is yet to be woken.      *)
Obstacles == {"none", "fence", "released", "media", "readiness"}
Clear(t) == obstacle[t] \in {"none", "released"}

Unlocated == "unlocated"
Absent == [present |-> FALSE, running |-> FALSE, parked |-> FALSE,
           woken |-> FALSE, readiness |-> FALSE, media_failures |-> 0,
           library |-> Unlocated]
Results == {"ok", "transient", "operator", "media", "readiness"}

Init ==
    /\ due = [t \in Tapes |-> TRUE]
    /\ retired = [t \in Tapes |-> FALSE]
    /\ obstacle \in [Tapes -> Obstacles \ {"released"}]
    /\ \A t \in Tapes \ Touched : obstacle[t] = "none"
    /\ place = [t \in Tapes |-> Home]
    /\ entries = [t \in Tapes |-> Absent]
    /\ libraries = {}
    /\ owner = [t \in Tapes |-> "nobody"]
    /\ attempt = [t \in Tapes |-> "idle"]
    /\ refresh = [t \in Tapes |-> "none"]
    /\ client = [t \in Tapes |-> "idle"]
    /\ loop = "top" /\ moved = {} /\ notified = TRUE
    /\ seen = [t \in Tapes |-> "unread"]
    /\ shutdown = FALSE
    /\ events = 0

--------------------------------------------------------------------------------
(* The work list: what each method of WorkList makes of an entry. *)

observe(r, is_due) ==
    IF is_due THEN [r EXCEPT !.present = TRUE]
    ELSE IF r.running THEN r ELSE Absent

(* Mutant: a running entry is forgotten too. *)
ForgetAny(r) == Absent
forget(r) == IF r.running THEN r ELSE Absent

(* Mutant: only an entry that is running is woken. *)
WakeRunning(r) == IF r.running THEN [r EXCEPT !.woken = TRUE] ELSE r
wake_tape(r) ==
    IF ~r.present THEN r
    ELSE [r EXCEPT !.woken = @ \/ r.running, !.parked = FALSE,
                   !.media_failures = 0, !.readiness = FALSE]

Woken(tapes) ==
    [t \in Tapes |-> IF t \in tapes THEN wake_tape(entries[t]) ELSE entries[t]]
wake_all == Woken(Tapes)
wake_library(l) == Woken({t \in Tapes : entries[t].library = l})
(* A wake of several tapes notifies for each entry it finds. *)
Notifies(tapes) == notified \/ \E t \in tapes : entries[t].present

(* Mutant: media failures do not park. *)
FailedForever(r, result) ==
    [r EXCEPT !.media_failures = IF result = "media" THEN @ + 1 ELSE @,
              !.parked = (result = "operator"), !.readiness = (result = "readiness")]
failed(r, result) ==
    LET media == IF result = "media" THEN r.media_failures + 1 ELSE r.media_failures
    IN  [r EXCEPT !.media_failures = media,
                  !.parked = (result = "operator" \/ media >= MediaLimit),
                  !.readiness = (result = "readiness")]

succeeded(r) == [r EXCEPT !.media_failures = 0, !.parked = FALSE, !.readiness = FALSE]

(* Mutant: the wake is not applied to what the attempt parked. *)
FinishParked(r) == [r EXCEPT !.running = FALSE]
finish(r) ==
    IF r.woken THEN [r EXCEPT !.running = FALSE, !.parked = FALSE, !.media_failures = 0]
    ELSE [r EXCEPT !.running = FALSE]

--------------------------------------------------------------------------------
(* The dispatcher. *)

UnchangedByLoop == <<log, obstacle, place, libraries, owner, refresh, client,
                     shutdown, events>>

(* Tapes whose refusal names a readiness operation that is over. *)
wake_ready == {t \in Tapes : entries[t].readiness /\ obstacle[t] # "readiness"}

(* A turn wakes the tapes that moved and those that are ready.  When it was *)
(* notified, or a minute has passed since the last scan, it scans: a tape   *)
(* that is retired is forgotten, the log of any other is read, and observed *)
(* later.                                                                   *)
Turn(scans) ==
    LET woken == moved \cup wake_ready
        e == Woken(woken)
    IN  /\ loop = "top" /\ ~shutdown
        /\ notified => scans
        /\ entries' = [t \in Tapes |-> IF scans /\ retired[t] THEN forget(e[t]) ELSE e[t]]
        /\ seen' = [t \in Tapes |-> IF ~scans \/ retired[t] THEN "unread"
                                    ELSE IF due[t] THEN "due" ELSE "clear"]
        /\ loop' = IF scans THEN "observe" ELSE "claim"
        /\ notified' = (woken # {})
        /\ moved' = {}
        /\ UNCHANGED attempt
        /\ UNCHANGED UnchangedByLoop

(* The library is recorded too, of an entry that is not running. *)
Located(t, r) ==
    IF r.present /\ ~r.running THEN [r EXCEPT !.library = place[t]] ELSE r
Scan ==
    /\ loop = "observe"
    /\ entries' = [t \in Tapes |->
            IF seen[t] = "unread" THEN entries[t]
            ELSE Located(t, observe(entries[t], seen[t] = "due"))]
    /\ seen' = [t \in Tapes |-> "unread"]
    /\ loop' = "claim"
    /\ UNCHANGED <<moved, notified, attempt>>
    /\ UNCHANGED UnchangedByLoop

Claimable(t) ==
    /\ entries[t].present /\ ~entries[t].running /\ ~entries[t].parked
    /\ owner[t] = "nobody"
Busy == {entries[t].library : t \in {u \in Tapes : entries[u].running}}

(* claim_filtered takes entries in the map's order, one for each library    *)
(* that is not busy: any largest such choice.                               *)
Claims ==
    LET free == {t \in Tapes : Claimable(t) /\ entries[t].library \notin Busy}
    IN  {S \in SUBSET free :
            /\ \A t, u \in S : entries[t].library = entries[u].library => t = u
            /\ \A t \in free : \E u \in S : entries[t].library = entries[u].library}

claim_unheld(S) ==
    /\ loop = "claim" /\ ~shutdown
    /\ S \in Claims
    /\ entries' = [t \in Tapes |->
            IF t \in S THEN [entries[t] EXCEPT !.running = TRUE, !.woken = FALSE]
            ELSE entries[t]]
    /\ attempt' = [t \in Tapes |-> IF t \in S THEN "claimed" ELSE attempt[t]]
    /\ loop' = "top"   \* at a notification, or after a second
    /\ UNCHANGED <<seen, moved, notified>>
    /\ UNCHANGED UnchangedByLoop

(* The loop ends when it finds the shutdown flag. *)
Stop ==
    /\ loop \in {"top", "claim"} /\ shutdown
    /\ loop' = "stopped"
    /\ UNCHANGED <<entries, seen, moved, notified, attempt>>
    /\ UNCHANGED UnchangedByLoop

Dispatch ==
    \/ \E scans \in BOOLEAN : Turn(scans)
    \/ \E S \in SUBSET Tapes : claim_unheld(S)
    \/ Scan \/ Stop

--------------------------------------------------------------------------------
(* One attempt: service_claimed and service_closeout_obligation. *)

UnchangedByWork == <<retired, obstacle, place, client, dispatcher, notified,
                     shutdown>>
UnchangedByAttempt == <<UnchangedByWork, events>>
Event == events < MaxEvents /\ events' = events + 1

(* Mutant: the library of the route is not reserved at dispatch. *)
AnyLibrary(t) == TRUE
(* LibraryAttempt of the library the cartridge is in by now is free. *)
reserve_library(t) == place[t] \notin libraries

(* What the maintenance admission finds: a refusal, a reason to be content, *)
(* or work to do.                                                           *)
Admission(t) ==
    IF shutdown THEN "shutdown"
    ELSE IF owner[t] # "nobody" THEN "transient"
    ELSE IF retired[t] THEN "ok"
    ELSE IF obstacle[t] = "fence" THEN "operator"
    ELSE IF ~reserve_library(t) THEN "transient"
    ELSE IF ~due[t] THEN "ok"
    ELSE "working"

Admit(t) ==
    /\ attempt[t] = "claimed"
    /\ attempt' = [attempt EXCEPT ![t] = Admission(t)]
    /\ IF Admission(t) = "working"
       THEN /\ owner' = [owner EXCEPT ![t] = "attempt"]
            /\ libraries' = libraries \cup {place[t]}
       ELSE UNCHANGED <<owner, libraries>>
    /\ UNCHANGED <<due, entries, refresh>>
    /\ UNCHANGED UnchangedByAttempt

(* What stands in the way of the work, once it is admitted. *)
Outcome(t) ==
    IF Clear(t) THEN "ok" ELSE IF obstacle[t] = "fence" THEN "operator" ELSE obstacle[t]

(* Mount, write, publish: the work is done unless the tape is obstructed.   *)
(* A shutdown that is found after the admission refuses it, and any step of *)
(* it may fail in a way that will pass: before the work is done or after,   *)
(* as when its closing audit record is not written.  Every guard the        *)
(* attempt holds is dropped as it returns.                                  *)
Work(t) ==
    /\ attempt[t] = "working"
    /\ \/ /\ attempt' = [attempt EXCEPT ![t] = Outcome(t)]
          /\ due' = [due EXCEPT ![t] = ~Clear(t)]
          /\ UNCHANGED events
       \/ /\ shutdown
          /\ attempt' = [attempt EXCEPT ![t] = "shutdown"]
          /\ UNCHANGED <<due, events>>
       \/ /\ Event
          /\ attempt' = [attempt EXCEPT ![t] = "transient"]
          /\ \/ UNCHANGED due
             \/ Clear(t) /\ due' = [due EXCEPT ![t] = FALSE]
    /\ owner' = [owner EXCEPT ![t] = "nobody"]
    /\ libraries' = libraries \ {place[t]}
    /\ UNCHANGED <<entries, refresh>>
    /\ UNCHANGED UnchangedByWork

Record(t) ==
    /\ attempt[t] \in Results
    /\ entries' = [entries EXCEPT ![t] =
            IF attempt[t] = "ok" THEN succeeded(@) ELSE failed(@, attempt[t])]
    /\ attempt' = [attempt EXCEPT ![t] = "recorded"]
    /\ UNCHANGED <<due, owner, libraries, refresh>>
    /\ UNCHANGED UnchangedByAttempt

(* drop(attempt).  The task goes on to refresh the entry, which by then may *)
(* be claimed again (bound: one such task of a tape).                       *)
Finish(t) ==
    /\ attempt[t] = "recorded" /\ refresh[t] = "none"
    /\ entries' = [entries EXCEPT ![t] = finish(@)]
    /\ attempt' = [attempt EXCEPT ![t] = "idle"]
    /\ refresh' = [refresh EXCEPT ![t] = "unread"]
    /\ UNCHANGED <<due, owner, libraries>>
    /\ UNCHANGED UnchangedByAttempt

(* A shutting-down daemon only releases the entry. *)
Abandon(t) ==
    /\ attempt[t] = "shutdown"
    /\ entries' = [entries EXCEPT ![t].running = FALSE]
    /\ attempt' = [attempt EXCEPT ![t] = "idle"]
    /\ UNCHANGED <<due, owner, libraries, refresh>>
    /\ UNCHANGED UnchangedByAttempt

(* Re-read the tape, and apply what was read a step later. *)
Reread(t) ==
    /\ refresh[t] = "unread"
    /\ IF retired[t]
       THEN /\ entries' = [entries EXCEPT ![t] = forget(@)]
            /\ refresh' = [refresh EXCEPT ![t] = "none"]
       ELSE /\ refresh' = [refresh EXCEPT ![t] = IF due[t] THEN "due" ELSE "clear"]
            /\ UNCHANGED entries
    /\ UNCHANGED <<attempt, due, owner, libraries>>
    /\ UNCHANGED UnchangedByAttempt

Refresh(t) ==
    /\ refresh[t] \in {"due", "clear"}
    /\ entries' = [entries EXCEPT ![t] = observe(@, refresh[t] = "due")]
    /\ refresh' = [refresh EXCEPT ![t] = "none"]
    /\ UNCHANGED <<attempt, due, owner, libraries>>
    /\ UNCHANGED UnchangedByAttempt

Attempt(t) == Admit(t) \/ Work(t) \/ Record(t) \/ Finish(t) \/ Abandon(t)

--------------------------------------------------------------------------------
(* Clients and operators. *)

UnchangedByClient == <<retired, place, libraries, attempt, refresh, dispatcher,
                       shutdown>>

(* A session or a CloseoutTape call owns the tape. *)
Open(t) ==
    /\ t \in Touched /\ owner[t] = "nobody" /\ client[t] = "idle"
    /\ ~shutdown /\ ~retired[t]
    /\ Event
    /\ owner' = [owner EXCEPT ![t] = "client"]
    /\ client' = [client EXCEPT ![t] = "active"]
    /\ UNCHANGED <<due, obstacle, entries, notified>>
    /\ UNCHANGED UnchangedByClient

(* A session ends with debt or without, and may leave the tape fenced.      *)
EndSession(t) ==
    /\ client[t] = "active"
    /\ owner' = [owner EXCEPT ![t] = "nobody"]
    /\ client' = [client EXCEPT ![t] = "idle"]
    /\ \/ UNCHANGED <<due, obstacle>>
       \/ due' = [due EXCEPT ![t] = TRUE] /\ UNCHANGED obstacle
       \/ /\ due' = [due EXCEPT ![t] = TRUE]
          /\ obstacle[t] = "none" /\ obstacle' = [obstacle EXCEPT ![t] = "fence"]
    /\ UNCHANGED <<entries, notified, events>>
    /\ UNCHANGED UnchangedByClient

(* closeout_tape: the reservation ends with closeout_tape_reserved, and the *)
(* list is woken after it, whatever the result.                             *)
closeout_tape(t) ==
    /\ \/ /\ client[t] = "active"
          /\ owner' = [owner EXCEPT ![t] = "nobody"]
          /\ due' = [due EXCEPT ![t] = @ /\ ~Clear(t)]
          /\ client' = [client EXCEPT ![t] = "released"]
          /\ UNCHANGED <<entries, notified>>
       \/ /\ client[t] = "released"
          /\ entries' = Woken({t}) /\ notified' = TRUE
          /\ client' = [client EXCEPT ![t] = "idle"]
          /\ UNCHANGED <<due, owner>>
    /\ UNCHANGED <<obstacle, events>>
    /\ UNCHANGED UnchangedByClient

(* An operator releases the tape-I/O fence, then every entry is woken; a    *)
(* readiness operation ends without telling the list.                       *)
ReleaseFence(t) ==
    /\ \/ /\ obstacle[t] = "fence"
          /\ obstacle' = [obstacle EXCEPT ![t] = "released"]
          /\ UNCHANGED <<entries, notified>>
       \/ /\ obstacle[t] = "released"
          /\ obstacle' = [obstacle EXCEPT ![t] = "none"]
          /\ entries' = wake_all /\ notified' = Notifies(Tapes)
       \/ /\ obstacle[t] = "readiness"
          /\ obstacle' = [obstacle EXCEPT ![t] = "none"]
          /\ UNCHANGED <<entries, notified>>
    /\ UNCHANGED <<due, owner, client, events>>
    /\ UNCHANGED UnchangedByClient

(* watch_robotics_completion: motion in a library that succeeded wakes what *)
(* the list holds under it.  It may have cured a fault of its media.        *)
Robotics(l) ==
    /\ Event
    /\ entries' = wake_library(l)
    /\ notified' = Notifies({t \in Tapes : entries[t].library = l})
    /\ \/ UNCHANGED obstacle
       \/ \E t \in Tapes : /\ place[t] = l /\ obstacle[t] = "media"
                           /\ obstacle' = [obstacle EXCEPT ![t] = "none"]
    /\ UNCHANGED <<due, owner, client>>
    /\ UNCHANGED UnchangedByClient

(* A cartridge is carried to another library, or its tape is retired. *)
Carry(t, l) ==
    /\ t \in Touched /\ owner[t] = "nobody" /\ place[t] # l
    /\ Event
    /\ place' = [place EXCEPT ![t] = l]
    /\ moved' = moved \cup {t}
    /\ UNCHANGED <<log, obstacle, entries, libraries, owner, attempt, refresh,
                   client, loop, seen, notified, shutdown>>

Retire(t) ==
    /\ t \in Touched /\ owner[t] = "nobody" /\ ~retired[t]
    /\ Event
    /\ retired' = [retired EXCEPT ![t] = TRUE]
    /\ UNCHANGED <<due, obstacle, place, entries, libraries, owner, attempt,
                   refresh, client, dispatcher, notified, shutdown>>

Shutdown ==
    /\ ~shutdown /\ Event
    /\ shutdown' = TRUE
    /\ UNCHANGED <<log, obstacle, place, entries, libraries, owner, attempt,
                   refresh, client, dispatcher, notified>>

(* The process dies, at any point, and is started again. *)
Restart ==
    /\ Event
    /\ entries' = [t \in Tapes |-> Absent]
    /\ libraries' = {}
    /\ owner' = [t \in Tapes |-> "nobody"]
    /\ attempt' = [t \in Tapes |-> "idle"]
    /\ refresh' = [t \in Tapes |-> "none"]
    /\ client' = [t \in Tapes |-> "idle"]
    /\ loop' = "top" /\ moved' = {} /\ notified' = TRUE
    /\ seen' = [t \in Tapes |-> "unread"]
    /\ shutdown' = FALSE
    /\ obstacle' = [t \in Tapes |-> IF Clear(t) THEN "none" ELSE obstacle[t]]
    /\ UNCHANGED <<log, place>>

Next ==
    \/ Dispatch \/ Shutdown \/ Restart
    \/ \E t \in Tapes : \/ Attempt(t) \/ Reread(t) \/ Refresh(t)
                        \/ Open(t) \/ EndSession(t) \/ closeout_tape(t)
                        \/ ReleaseFence(t) \/ Retire(t)
    \/ \E l \in Libraries : Robotics(l) \/ \E t \in Tapes : Carry(t, l)

Spec == Init /\ [][Next]_vars

(***************************************************************************)
(* Tasks that can run do run, and a client operation ends (a session idles *)
(* out).  The minute between scans passes.  Of entries that compete for a  *)
(* library each is claimed in the end: a loser is eligible at the next     *)
(* turn, a second away at most, while the winner that failed waits out a   *)
(* backoff of seconds.  Operators owe nothing but to finish the release of *)
(* a fence: it may stay, and a drive may never get ready.                  *)
(***************************************************************************)
Fairness ==
    /\ WF_vars(Dispatch) /\ SF_vars(Turn(TRUE))
    /\ \A t \in Tapes :
          /\ WF_vars(Attempt(t)) /\ WF_vars(Reread(t) \/ Refresh(t))
          /\ SF_vars(\E S \in SUBSET Tapes : t \in S /\ claim_unheld(S))
          /\ WF_vars(EndSession(t) \/ closeout_tape(t))
          /\ WF_vars(obstacle[t] = "released" /\ ReleaseFence(t))
FairSpec == Spec /\ Fairness

--------------------------------------------------------------------------------
Entries ==
    [present : BOOLEAN, running : BOOLEAN, parked : BOOLEAN, woken : BOOLEAN,
     readiness : BOOLEAN, media_failures : 0..MediaLimit,
     library : Libraries \cup {Unlocated}]

(* Every variable keeps its type. *)
TypeOK ==
    /\ due \in [Tapes -> BOOLEAN] /\ retired \in [Tapes -> BOOLEAN]
    /\ obstacle \in [Tapes -> Obstacles]
    /\ place \in [Tapes -> Libraries]
    /\ entries \in [Tapes -> Entries]
    /\ libraries \subseteq Libraries
    /\ owner \in [Tapes -> {"nobody", "attempt", "client"}]
    /\ attempt \in [Tapes -> Results \cup {"idle", "claimed", "working",
                                           "shutdown", "recorded"}]
    /\ refresh \in [Tapes -> {"none", "unread", "due", "clear"}]
    /\ client \in [Tapes -> {"idle", "active", "released"}]
    /\ loop \in {"top", "observe", "claim", "stopped"}
    /\ seen \in [Tapes -> {"unread", "due", "clear"}]
    /\ moved \subseteq Tapes
    /\ {notified, shutdown} \subseteq BOOLEAN
    /\ events \in 0..MaxEvents

(* No two attempts do media work in one library, though entries are claimed *)
(* under a library recorded earlier (claim_filtered, reserve_library); and  *)
(* the entry of an attempt stays in the list, whatever scans and refreshes  *)
(* find meanwhile, so that it is not claimed twice (observe, forget).       *)
AttemptsExclusive ==
    /\ \A t, u \in Tapes :
          attempt[t] = "working" /\ attempt[u] = "working" /\ t # u =>
             place[t] # place[u]
    /\ \A t \in Tapes : attempt[t] # "idle" =>
                           entries[t].present /\ entries[t].running

(* A wake that arrives while an attempt runs is followed by another attempt *)
(* (or by the end of the entry), even if the attempt that was running parks *)
(* its entry after the wake (wake_tape, failed, finish).                    *)
WakeHonoured ==
    \A t \in Touched : entries[t].woken ~> (~entries[t].woken \/ shutdown)

(* Work due on a touched tape, while other tapes compete for its library,   *)
(* is done, unless the tape is retired, is obstructed, or                   *)
(* has used up its media failures: no wake, scan or refresh that crosses an *)
(* attempt strands a tape (spawn, service_claimed, wake_ready).             *)
DebtServed ==
    \A t \in Touched :
        due[t] ~> \/ ~due[t] \/ retired[t] \/ shutdown
                  \/ obstacle[t] \in {"fence", "media", "readiness"}
                  \/ entries[t].media_failures = MediaLimit
================================================================================
