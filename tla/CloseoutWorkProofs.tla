-------------------------- MODULE CloseoutWorkProofs --------------------------
(***************************************************************************)
(* Proofs about CloseoutWork, for every set of tapes and libraries and     *)
(* every limit of media failures: an entry has one attempt, and a library  *)
(* one attempt that works in it.                                           *)
(***************************************************************************)
EXTENDS CloseoutWork, TLAPS

(* An attempt whose result is not recorded yet. *)
Unrecorded == Results \cup {"claimed", "working"}

(* An attempt keeps its entry in the list, and an entry that has used up    *)
(* its media failures is parked, so that no attempt starts on it.           *)
Kept(r, a) ==
    /\ r.media_failures = MediaLimit => r.parked
    /\ a \in Unrecorded => r.media_failures < MediaLimit
    /\ a # "idle" => r.present /\ r.running
EntryInv == \A t \in Tapes : Kept(entries[t], attempt[t])

(* A tape is owned by its attempt or by its client, never by both, and an   *)
(* attempt holds the library its cartridge is in.                           *)
OwnerInv ==
    \A t \in Tapes :
        /\ attempt[t] = "working" => owner[t] = "attempt" /\ place[t] \in libraries
        /\ client[t] = "active" => owner[t] = "client"

LibraryInv ==
    \A t, u \in Tapes :
        attempt[t] = "working" /\ attempt[u] = "working" /\ t # u =>
            place[t] # place[u]

WorkInv == TypeOK /\ EntryInv /\ OwnerInv /\ LibraryInv

--------------------------------------------------------------------------------
(* What each method of the list leaves of an entry. *)
USE WorkAssumption

(* An entry that is not in the list owes nothing to an attempt. *)
LEMMA AbsentKept == Absent \in Entries /\ Kept(Absent, "idle")
BY DEF Absent, Entries, Kept, Unrecorded, Results, Unlocated

LEMMA ForgetKept ==
    ASSUME NEW r \in Entries, NEW a, Kept(r, a)
    PROVE  forget(r) \in Entries /\ Kept(forget(r), a)
<1>1. CASE r.running
  BY <1>1 DEF forget
<1>2. CASE ~r.running
  BY <1>2, AbsentKept DEF forget, Kept
<1> QED BY <1>1, <1>2

LEMMA ObserveKept ==
    ASSUME NEW r \in Entries, NEW a, Kept(r, a), NEW d \in BOOLEAN
    PROVE  observe(r, d) \in Entries /\ Kept(observe(r, d), a)
<1>1. CASE d
  <2> DEFINE p == [r EXCEPT !.present = TRUE]
  <2>1. /\ p \in Entries /\ p.present /\ p.running = r.running
        /\ p.parked = r.parked /\ p.media_failures = r.media_failures
    BY DEF Entries
  <2> QED BY <1>1, <2>1 DEF observe, Kept
<1>2. CASE ~d
  BY <1>2, ForgetKept DEF observe, forget
<1> QED BY <1>1, <1>2

LEMMA LocatedKept ==
    ASSUME TypeOK, NEW t \in Tapes, NEW r \in Entries, NEW a, Kept(r, a)
    PROVE  Located(t, r) \in Entries /\ Kept(Located(t, r), a)
<1> DEFINE p == [r EXCEPT !.library = place[t]]
<1>1. /\ p \in Entries /\ p.present = r.present /\ p.running = r.running
      /\ p.parked = r.parked /\ p.media_failures = r.media_failures
  BY DEF Entries, TypeOK
<1> QED BY <1>1 DEF Located, Kept

LEMMA NoFailures == 0 \in 0..MediaLimit /\ 0 # MediaLimit /\ 0 < MediaLimit
OBVIOUS

LEMMA WakeKept ==
    ASSUME NEW r \in Entries, NEW a, Kept(r, a)
    PROVE  wake_tape(r) \in Entries /\ Kept(wake_tape(r), a)
<1> DEFINE w == r.woken \/ r.running
<1>1. w \in BOOLEAN
  OBVIOUS
<1>2. r.present => wake_tape(r) = [r EXCEPT !.woken = w, !.parked = FALSE,
                                   !.media_failures = 0, !.readiness = FALSE]
  BY DEF wake_tape
<1> HIDE DEF w
<1>3. CASE r.present
  <2> DEFINE n == wake_tape(r)
  <2>1. /\ n \in Entries /\ n.media_failures = 0
        /\ n.present = r.present /\ n.running = r.running
    BY <1>1, <1>2, <1>3, NoFailures DEF Entries
  <2> QED BY <2>1, NoFailures DEF Kept
<1>4. CASE ~r.present
  BY <1>4 DEF wake_tape
<1> QED BY <1>3, <1>4

(* A wake of several tapes. *)
LEMMA WokenKept ==
    ASSUME WorkInv, NEW S
    PROVE  /\ Woken(S) \in [Tapes -> Entries]
           /\ \A t \in Tapes : Kept(Woken(S)[t], attempt[t])
BY WakeKept DEF Woken, WorkInv, TypeOK, EntryInv

(* A failure is recorded of an attempt that found fewer than the limit. *)
LEMMA FailedKept ==
    ASSUME NEW r \in Entries, NEW a \in Results, Kept(r, a)
    PROVE  failed(r, a) \in Entries /\ Kept(failed(r, a), "recorded")
<1> DEFINE m == IF a = "media" THEN r.media_failures + 1 ELSE r.media_failures
           p == (a = "operator" \/ m >= MediaLimit)
           q == (a = "readiness")
<1>1. m \in 0..MediaLimit /\ (m = MediaLimit => p) /\ r.present /\ r.running
  BY DEF Entries, Kept, Unrecorded, Results
<1>2. p \in BOOLEAN /\ q \in BOOLEAN
  OBVIOUS
<1>3. failed(r, a) = [r EXCEPT !.media_failures = m, !.parked = p, !.readiness = q]
  BY DEF failed
<1> HIDE DEF m, p, q
<1>4. "recorded" \notin Unrecorded
  BY DEF Unrecorded, Results
<1> QED BY <1>1, <1>2, <1>3, <1>4 DEF Entries, Kept

LEMMA SucceededKept ==
    ASSUME NEW r \in Entries, NEW a \in Results, Kept(r, a)
    PROVE  succeeded(r) \in Entries /\ Kept(succeeded(r), "recorded")
<1> DEFINE n == succeeded(r)
<1>1. /\ n \in Entries /\ n.media_failures = 0
      /\ n.present = r.present /\ n.running = r.running
  BY NoFailures DEF succeeded, Entries
<1> QED BY <1>1, NoFailures DEF Kept, Results

(* The attempt lets go of its entry. *)
LEMMA FinishKept ==
    ASSUME NEW r \in Entries, NEW a, Kept(r, a)
    PROVE  /\ finish(r) \in Entries /\ Kept(finish(r), "idle")
           /\ [r EXCEPT !.running = FALSE] \in Entries
           /\ Kept([r EXCEPT !.running = FALSE], "idle")
<1> DEFINE n == [r EXCEPT !.running = FALSE]
           w == [r EXCEPT !.running = FALSE, !.parked = FALSE, !.media_failures = 0]
<1>1. n \in Entries /\ n.media_failures = r.media_failures /\ n.parked = r.parked
  BY DEF Entries
<1>2. w \in Entries /\ w.media_failures = 0
  BY NoFailures DEF Entries
<1>3. "idle" \notin Unrecorded
  BY DEF Unrecorded, Results
<1>4. Kept(n, "idle") /\ Kept(w, "idle")
  BY <1>1, <1>2, <1>3 DEF Kept
<1>5. finish(r) = n \/ finish(r) = w
  BY DEF finish
<1> QED BY <1>1, <1>2, <1>4, <1>5

--------------------------------------------------------------------------------
(* One lemma for each action. *)

(* What no entry and no owner is concerned in. *)
LEMMA Frame ==
    ASSUME WorkInv, TypeOK',
           UNCHANGED <<place, entries, libraries, owner, attempt, client>>
    PROVE  WorkInv'
BY DEF WorkInv, EntryInv, OwnerInv, LibraryInv, Kept

(* What changes entries only. *)
LEMMA EntriesOnly ==
    ASSUME WorkInv, TypeOK', EntryInv',
           UNCHANGED <<place, libraries, owner, attempt, client>>
    PROVE  WorkInv'
BY DEF WorkInv, OwnerInv, LibraryInv

LEMMA TurnStep ==
    ASSUME WorkInv, NEW scans \in BOOLEAN, Turn(scans) PROVE WorkInv'
<1> DEFINE e == Woken(moved \cup wake_ready)
<1>1. e \in [Tapes -> Entries] /\ \A t \in Tapes : Kept(e[t], attempt[t])
  BY WokenKept
<1>2. entries' = [t \in Tapes |-> IF scans /\ retired[t] THEN forget(e[t]) ELSE e[t]]
  BY DEF Turn
<1> HIDE DEF e
<1>3. entries' \in [Tapes -> Entries] /\ \A t \in Tapes : Kept(entries'[t], attempt[t])
  BY <1>1, <1>2, ForgetKept
<1>4. seen' \in [Tapes -> {"unread", "due", "clear"}]
  BY DEF Turn
<1>5. notified' \in BOOLEAN
  BY Zenon DEF Turn
<1>6. TypeOK'
  BY <1>3, <1>4, <1>5 DEF Turn, UnchangedByLoop, log, WorkInv, TypeOK
<1>7. EntryInv'
  BY <1>3 DEF Turn, EntryInv, UnchangedByLoop
<1> QED BY <1>6, <1>7, EntriesOnly DEF Turn, UnchangedByLoop, log

LEMMA ScanStep == ASSUME WorkInv, Scan PROVE WorkInv'
<1>1. entries' \in [Tapes -> Entries] /\ \A t \in Tapes : Kept(entries'[t], attempt[t])
  <2> SUFFICES ASSUME NEW t \in Tapes
               PROVE  entries'[t] \in Entries /\ Kept(entries'[t], attempt[t])
    BY DEF Scan
  <2> DEFINE o == observe(entries[t], seen[t] = "due")
  <2>1. (seen[t] = "due") \in BOOLEAN
    OBVIOUS
  <2>2. entries[t] \in Entries /\ Kept(entries[t], attempt[t])
    BY DEF WorkInv, TypeOK, EntryInv
  <2>3. o \in Entries /\ Kept(o, attempt[t])
    BY <2>1, <2>2, ObserveKept, Zenon
  <2>4. Located(t, o) \in Entries /\ Kept(Located(t, o), attempt[t])
    BY <2>3, LocatedKept DEF WorkInv
  <2> HIDE DEF o
  <2>5. entries'[t] = entries[t] \/ entries'[t] = Located(t, o)
    BY DEF Scan, o
  <2> QED BY <2>2, <2>4, <2>5
<1>2. TypeOK'
  BY <1>1 DEF Scan, UnchangedByLoop, log, WorkInv, TypeOK
<1>3. EntryInv'
  BY <1>1 DEF Scan, EntryInv, UnchangedByLoop
<1> QED BY <1>2, <1>3, EntriesOnly DEF Scan, UnchangedByLoop, log

(* An entry that is claimed is in the list and not parked, and its tape has *)
(* no other attempt.                                                        *)
LEMMA ClaimStep ==
    ASSUME WorkInv, NEW S \in SUBSET Tapes, claim_unheld(S) PROVE WorkInv'
<1>1. \A t \in S : entries[t].present /\ ~entries[t].running /\ ~entries[t].parked
  BY DEF claim_unheld, Claims, Claimable
<1>2. /\ entries' \in [Tapes -> Entries]
      /\ \A t \in Tapes : Kept(entries'[t], attempt'[t])
  <2> SUFFICES ASSUME NEW t \in Tapes
               PROVE  entries'[t] \in Entries /\ Kept(entries'[t], attempt'[t])
    BY DEF claim_unheld
  <2>1. entries[t] \in Entries /\ Kept(entries[t], attempt[t])
    BY DEF WorkInv, TypeOK, EntryInv
  <2>2. CASE t \in S
    <3> DEFINE n == [entries[t] EXCEPT !.running = TRUE, !.woken = FALSE]
    <3>1. entries'[t] = n /\ attempt'[t] = "claimed"
      BY <2>2 DEF claim_unheld
    <3>2. /\ n \in Entries /\ n.running /\ n.present = entries[t].present
          /\ n.parked = entries[t].parked
          /\ n.media_failures = entries[t].media_failures
      BY <2>1 DEF Entries
    <3>3. entries[t].media_failures \in 0..MediaLimit
      BY <2>1 DEF Entries
    <3> QED BY <1>1, <2>1, <2>2, <3>1, <3>2, <3>3 DEF Kept
  <2>3. CASE t \notin S
    BY <2>1, <2>3 DEF claim_unheld
  <2> QED BY <2>2, <2>3
<1>3. \A t \in Tapes : attempt'[t] = "working" => attempt[t] = "working"
  BY DEF claim_unheld
<1>4. TypeOK'
  BY <1>2 DEF claim_unheld, UnchangedByLoop, log, WorkInv, TypeOK
<1>5. EntryInv'
  BY <1>2 DEF EntryInv
<1>6. OwnerInv' /\ LibraryInv'
  BY <1>3 DEF claim_unheld, UnchangedByLoop, log, WorkInv, OwnerInv, LibraryInv
<1> QED BY <1>4, <1>5, <1>6 DEF WorkInv

LEMMA StopStep == ASSUME WorkInv, Stop PROVE WorkInv'
<1>1. TypeOK'
  BY DEF Stop, UnchangedByLoop, log, WorkInv, TypeOK
<1> QED BY <1>1, Frame DEF Stop, UnchangedByLoop, log

(* Media work starts only in a library that no attempt works in. *)
LEMMA AdmitStep == ASSUME WorkInv, NEW t \in Tapes, Admit(t) PROVE WorkInv'
<1> USE DEF UnchangedByAttempt, UnchangedByWork, dispatcher
<1>1. Admission(t) \in {"shutdown", "transient", "ok", "operator", "working"}
  BY DEF Admission
<1>2. attempt' = [attempt EXCEPT ![t] = Admission(t)] /\ attempt[t] = "claimed"
  BY DEF Admit
<1>3. Admission(t) = "working" =>
          owner[t] = "nobody" /\ place[t] \notin libraries
  BY DEF Admission, reserve_library
<1>4. CASE Admission(t) = "working"
  <2>1. /\ owner' = [owner EXCEPT ![t] = "attempt"]
        /\ libraries' = libraries \cup {place[t]}
        /\ UNCHANGED <<entries, place, client>>
    BY <1>4 DEF Admit
  <2>2. TypeOK'
    BY <1>2, <1>4, <2>1 DEF Admit, WorkInv, TypeOK
  <2>3. EntryInv'
    BY <1>2, <1>4, <2>1 DEF WorkInv, TypeOK, EntryInv, Kept, Unrecorded, Results
  <2>4. OwnerInv'
    BY <1>2, <1>3, <1>4, <2>1 DEF WorkInv, TypeOK, OwnerInv
  <2>5. LibraryInv'
    BY <1>2, <1>3, <1>4, <2>1 DEF WorkInv, TypeOK, OwnerInv, LibraryInv
  <2> QED BY <2>2, <2>3, <2>4, <2>5 DEF WorkInv
<1>5. CASE Admission(t) # "working"
  <2>1. UNCHANGED <<owner, libraries, entries, place, client>>
    BY <1>5 DEF Admit
  <2>2. TypeOK'
    BY <1>1, <1>2, <2>1 DEF Admit, WorkInv, TypeOK, Results
  <2>3. EntryInv'
    BY <1>1, <1>2, <2>1 DEF WorkInv, TypeOK, EntryInv, Kept, Unrecorded, Results
  <2>4. OwnerInv' /\ LibraryInv'
    BY <1>2, <1>5, <2>1 DEF WorkInv, TypeOK, OwnerInv, LibraryInv
  <2> QED BY <2>2, <2>3, <2>4 DEF WorkInv
<1> QED BY <1>4, <1>5

(* The library is given up by the one attempt that worked in it, however    *)
(* its work ends.                                                           *)
LEMMA WorkStep == ASSUME WorkInv, NEW t \in Tapes, Work(t) PROVE WorkInv'
<1> USE DEF UnchangedByWork, dispatcher
<1>1. PICK r \in Results \cup {"shutdown"} : attempt' = [attempt EXCEPT ![t] = r]
  <2>1. Outcome(t) \in Results
    BY DEF Outcome, Clear, Results, WorkInv, TypeOK, Obstacles
  <2>2. "transient" \in Results
    BY DEF Results
  <2> QED BY <2>1, <2>2 DEF Work
<1>2. due' \in [Tapes -> BOOLEAN]
  <2>1. (~Clear(t)) \in BOOLEAN
    OBVIOUS
  <2>2. \/ due' = due \/ due' = [due EXCEPT ![t] = FALSE]
        \/ due' = [due EXCEPT ![t] = ~Clear(t)]
    BY DEF Work
  <2> QED BY <2>1, <2>2 DEF WorkInv, TypeOK
<1>3. events' \in 0..MaxEvents
  BY DEF Work, Event, WorkInv, TypeOK
<1>4. /\ attempt[t] = "working"
      /\ owner' = [owner EXCEPT ![t] = "nobody"]
      /\ libraries' = libraries \ {place[t]}
      /\ UNCHANGED <<entries, place, client>>
  BY DEF Work
<1>5. r \notin {"working", "claimed", "idle"}
  BY DEF Results
<1>6. TypeOK'
  BY <1>1, <1>2, <1>3, <1>4 DEF Work, WorkInv, TypeOK
<1>7. EntryInv'
  BY <1>1, <1>4, <1>5 DEF WorkInv, TypeOK, EntryInv, Kept, Unrecorded, Results
<1>8. OwnerInv'
  BY <1>1, <1>4, <1>5 DEF WorkInv, TypeOK, OwnerInv, LibraryInv
<1>9. LibraryInv'
  BY <1>1, <1>4, <1>5 DEF WorkInv, TypeOK, LibraryInv
<1> QED BY <1>6, <1>7, <1>8, <1>9 DEF WorkInv

LEMMA RecordStep == ASSUME WorkInv, NEW t \in Tapes, Record(t) PROVE WorkInv'
<1> USE DEF UnchangedByAttempt, UnchangedByWork, dispatcher
<1> DEFINE n == IF attempt[t] = "ok" THEN succeeded(entries[t])
                ELSE failed(entries[t], attempt[t])
<1>1. n \in Entries /\ Kept(n, "recorded")
  BY SucceededKept, FailedKept DEF Record, WorkInv, TypeOK, EntryInv
<1>2. /\ entries' = [entries EXCEPT ![t] = n]
      /\ attempt' = [attempt EXCEPT ![t] = "recorded"]
      /\ UNCHANGED <<owner, libraries, place, client>>
  BY DEF Record
<1> HIDE DEF n
<1>3. TypeOK'
  BY <1>1, <1>2 DEF Record, WorkInv, TypeOK
<1>4. EntryInv'
  BY <1>1, <1>2 DEF WorkInv, TypeOK, EntryInv
<1>5. OwnerInv' /\ LibraryInv'
  BY <1>2 DEF WorkInv, TypeOK, OwnerInv, LibraryInv
<1> QED BY <1>3, <1>4, <1>5 DEF WorkInv

LEMMA FinishStep == ASSUME WorkInv, NEW t \in Tapes, Finish(t) PROVE WorkInv'
<1> USE DEF UnchangedByAttempt, UnchangedByWork, dispatcher
<1>1. finish(entries[t]) \in Entries /\ Kept(finish(entries[t]), "idle")
  BY FinishKept DEF WorkInv, TypeOK, EntryInv
<1>2. /\ entries' = [entries EXCEPT ![t] = finish(entries[t])]
      /\ attempt' = [attempt EXCEPT ![t] = "idle"]
      /\ UNCHANGED <<owner, libraries, place, client>>
  BY DEF Finish
<1>3. TypeOK'
  BY <1>1, <1>2 DEF Finish, WorkInv, TypeOK
<1>4. EntryInv'
  BY <1>1, <1>2 DEF WorkInv, TypeOK, EntryInv
<1>5. OwnerInv' /\ LibraryInv'
  BY <1>2 DEF WorkInv, TypeOK, OwnerInv, LibraryInv
<1> QED BY <1>3, <1>4, <1>5 DEF WorkInv

LEMMA AbandonStep == ASSUME WorkInv, NEW t \in Tapes, Abandon(t) PROVE WorkInv'
<1> USE DEF UnchangedByAttempt, UnchangedByWork, dispatcher
<1> DEFINE n == [entries[t] EXCEPT !.running = FALSE]
<1>1. n \in Entries /\ Kept(n, "idle")
  BY FinishKept DEF WorkInv, TypeOK, EntryInv
<1>2. /\ entries' = [entries EXCEPT ![t] = n]
      /\ attempt' = [attempt EXCEPT ![t] = "idle"]
      /\ UNCHANGED <<due, retired, obstacle, owner, libraries, refresh, place,
                     client, loop, seen, moved, notified, shutdown, events>>
  BY DEF Abandon
<1> HIDE DEF n
<1>3. TypeOK'
  BY <1>1, <1>2 DEF WorkInv, TypeOK
<1>4. EntryInv'
  BY <1>1, <1>2 DEF WorkInv, TypeOK, EntryInv
<1>5. OwnerInv' /\ LibraryInv'
  BY <1>2 DEF WorkInv, TypeOK, OwnerInv, LibraryInv
<1> QED BY <1>3, <1>4, <1>5 DEF WorkInv

LEMMA RereadStep == ASSUME WorkInv, NEW t \in Tapes, Reread(t) PROVE WorkInv'
<1> USE DEF UnchangedByAttempt, UnchangedByWork, dispatcher
<1>1. forget(entries[t]) \in Entries /\ Kept(forget(entries[t]), attempt[t])
  BY ForgetKept DEF WorkInv, TypeOK, EntryInv
<1>2. entries' = [entries EXCEPT ![t] = forget(entries[t])] \/ entries' = entries
  BY DEF Reread
<1>3. refresh' \in [Tapes -> {"none", "unread", "due", "clear"}]
  BY DEF Reread, WorkInv, TypeOK
<1>4. TypeOK'
  BY <1>1, <1>2, <1>3 DEF Reread, WorkInv, TypeOK
<1>5. EntryInv'
  BY <1>1, <1>2 DEF Reread, WorkInv, TypeOK, EntryInv
<1> QED BY <1>4, <1>5, EntriesOnly DEF Reread

LEMMA RefreshStep == ASSUME WorkInv, NEW t \in Tapes, Refresh(t) PROVE WorkInv'
<1> USE DEF UnchangedByAttempt, UnchangedByWork, dispatcher
<1> DEFINE o == observe(entries[t], refresh[t] = "due")
<1>1. (refresh[t] = "due") \in BOOLEAN
  OBVIOUS
<1>2. entries[t] \in Entries /\ Kept(entries[t], attempt[t])
  BY DEF WorkInv, TypeOK, EntryInv
<1>3. o \in Entries /\ Kept(o, attempt[t])
  BY <1>1, <1>2, ObserveKept, Zenon
<1>4. entries' = [entries EXCEPT ![t] = o]
  BY DEF Refresh
<1> HIDE DEF o
<1>5. TypeOK'
  BY <1>3, <1>4 DEF Refresh, WorkInv, TypeOK
<1>6. EntryInv'
  BY <1>3, <1>4 DEF Refresh, WorkInv, TypeOK, EntryInv
<1> QED BY <1>5, <1>6, EntriesOnly DEF Refresh

(* A client takes a tape that nobody owns, so that no attempt works on it. *)
LEMMA OpenStep == ASSUME WorkInv, NEW t \in Tapes, Open(t) PROVE WorkInv'
<1> USE DEF UnchangedByClient, Event, dispatcher
<1>1. TypeOK'
  BY DEF Open, WorkInv, TypeOK
<1>2. EntryInv' /\ LibraryInv'
  BY DEF Open, WorkInv, TypeOK, EntryInv, LibraryInv, Kept
<1>3. OwnerInv'
  BY DEF Open, WorkInv, TypeOK, OwnerInv
<1> QED BY <1>1, <1>2, <1>3 DEF WorkInv

LEMMA EndSessionStep ==
    ASSUME WorkInv, NEW t \in Tapes, EndSession(t) PROVE WorkInv'
<1> USE DEF UnchangedByClient, Event, dispatcher
<1>1. /\ due' = due \/ due' = [due EXCEPT ![t] = TRUE]
      /\ obstacle' = obstacle \/ obstacle' = [obstacle EXCEPT ![t] = "fence"]
  BY DEF EndSession
<1>2. TypeOK'
  <2>1. due' \in [Tapes -> BOOLEAN]
    BY <1>1 DEF WorkInv, TypeOK
  <2>2. obstacle' \in [Tapes -> Obstacles]
    BY <1>1 DEF WorkInv, TypeOK, Obstacles
  <2>3. /\ owner' = [owner EXCEPT ![t] = "nobody"]
        /\ client' = [client EXCEPT ![t] = "idle"]
        /\ UNCHANGED <<retired, place, entries, libraries, attempt, refresh, loop,
                       seen, moved, notified, shutdown, events>>
    BY DEF EndSession
  <2> QED BY <2>1, <2>2, <2>3 DEF WorkInv, TypeOK
<1>3. EntryInv' /\ LibraryInv'
  BY DEF EndSession, WorkInv, TypeOK, EntryInv, LibraryInv, Kept
<1>4. OwnerInv'
  BY DEF EndSession, WorkInv, TypeOK, OwnerInv
<1> QED BY <1>2, <1>3, <1>4 DEF WorkInv

LEMMA CloseoutTapeStep ==
    ASSUME WorkInv, NEW t \in Tapes, closeout_tape(t) PROVE WorkInv'
<1> USE DEF UnchangedByClient, Event, dispatcher
<1>1. CASE client[t] = "active"
  <2> DEFINE d == due[t] /\ ~Clear(t)
  <2>1. d \in BOOLEAN
    OBVIOUS
  <2>2. /\ due' = [due EXCEPT ![t] = d]
        /\ owner' = [owner EXCEPT ![t] = "nobody"]
        /\ client' = [client EXCEPT ![t] = "released"]
        /\ UNCHANGED <<entries, notified, place, libraries, attempt>>
    BY <1>1 DEF closeout_tape
  <2> HIDE DEF d
  <2>3. TypeOK'
    BY <2>1, <2>2 DEF closeout_tape, WorkInv, TypeOK
  <2>4. EntryInv' /\ LibraryInv'
    BY <2>2 DEF WorkInv, EntryInv, LibraryInv, Kept
  <2>5. OwnerInv'
    BY <1>1, <2>2 DEF WorkInv, TypeOK, OwnerInv
  <2> QED BY <2>3, <2>4, <2>5 DEF WorkInv
<1>2. CASE client[t] = "released"
  <2>1. /\ entries' = Woken({t}) /\ notified' = TRUE
        /\ client' = [client EXCEPT ![t] = "idle"]
        /\ UNCHANGED <<due, owner, place, libraries, attempt>>
    BY <1>2 DEF closeout_tape
  <2>2. entries' \in [Tapes -> Entries] /\ EntryInv'
    BY <2>1, WokenKept DEF EntryInv
  <2>3. TypeOK'
    BY <2>1, <2>2 DEF closeout_tape, WorkInv, TypeOK
  <2>4. OwnerInv' /\ LibraryInv'
    BY <2>1 DEF WorkInv, TypeOK, OwnerInv, LibraryInv
  <2> QED BY <2>2, <2>3, <2>4 DEF WorkInv
<1> QED BY <1>1, <1>2 DEF closeout_tape

LEMMA ReleaseFenceStep ==
    ASSUME WorkInv, NEW t \in Tapes, ReleaseFence(t) PROVE WorkInv'
<1> USE DEF UnchangedByClient, Event, dispatcher
<1>1. Notifies(Tapes) \in BOOLEAN
  BY Zenon DEF Notifies
<1>2. notified' \in BOOLEAN /\ (entries' = entries \/ entries' = Woken(Tapes))
  BY <1>1 DEF ReleaseFence, WorkInv, TypeOK, wake_all
<1>3. entries' \in [Tapes -> Entries] /\ \A u \in Tapes : Kept(entries'[u], attempt[u])
  BY <1>2, WokenKept DEF WorkInv, TypeOK, EntryInv
<1>4. obstacle' \in [Tapes -> Obstacles]
  BY DEF ReleaseFence, WorkInv, TypeOK, Obstacles
<1>5. TypeOK'
  BY <1>2, <1>3, <1>4 DEF ReleaseFence, WorkInv, TypeOK
<1>6. EntryInv'
  BY <1>3 DEF ReleaseFence, EntryInv
<1> QED BY <1>5, <1>6, EntriesOnly DEF ReleaseFence

LEMMA RoboticsStep ==
    ASSUME WorkInv, NEW l \in Libraries, Robotics(l) PROVE WorkInv'
<1> USE DEF UnchangedByClient, Event, dispatcher
<1> DEFINE S == {t \in Tapes : entries[t].library = l}
<1>1. Notifies(S) \in BOOLEAN
  BY Zenon DEF Notifies
<1>2. notified' = Notifies(S) /\ entries' = Woken(S)
  BY DEF Robotics, wake_library
<1> HIDE DEF S
<1>3. entries' \in [Tapes -> Entries] /\ \A u \in Tapes : Kept(entries'[u], attempt[u])
  BY <1>2, WokenKept
<1>4. obstacle' \in [Tapes -> Obstacles]
  BY DEF Robotics, WorkInv, TypeOK, Obstacles
<1>5. TypeOK'
  BY <1>1, <1>2, <1>3, <1>4 DEF Robotics, WorkInv, TypeOK
<1>6. EntryInv'
  BY <1>3 DEF Robotics, EntryInv
<1> QED BY <1>5, <1>6, EntriesOnly DEF Robotics

(* Only a cartridge that nobody owns is carried away: no attempt works on it. *)
LEMMA CarryStep ==
    ASSUME WorkInv, NEW t \in Tapes, NEW l \in Libraries, Carry(t, l) PROVE WorkInv'
<1>1. TypeOK'
  BY DEF Carry, WorkInv, TypeOK, Event, log
<1>2. EntryInv'
  BY DEF Carry, WorkInv, EntryInv, Kept
<1>3. OwnerInv' /\ LibraryInv'
  BY DEF Carry, WorkInv, TypeOK, OwnerInv, LibraryInv
<1> QED BY <1>1, <1>2, <1>3 DEF WorkInv

LEMMA RetireStep == ASSUME WorkInv, NEW t \in Tapes, Retire(t) PROVE WorkInv'
<1>1. TypeOK'
  BY DEF Retire, WorkInv, TypeOK, Event, dispatcher
<1> QED BY <1>1, Frame DEF Retire

LEMMA ShutdownStep == ASSUME WorkInv, Shutdown PROVE WorkInv'
<1>1. TypeOK'
  BY DEF Shutdown, WorkInv, TypeOK, Event, dispatcher, log
<1> QED BY <1>1, Frame DEF Shutdown

LEMMA RestartStep == ASSUME WorkInv, Restart PROVE WorkInv'
<1>1. obstacle' \in [Tapes -> Obstacles]
  BY DEF Restart, WorkInv, TypeOK, Obstacles
<1>2. TypeOK'
  <2>1. entries' \in [Tapes -> Entries]
    BY AbsentKept DEF Restart
  <2>2. events' \in 0..MaxEvents
    BY DEF Restart, Event, WorkInv, TypeOK
  <2> QED BY <1>1, <2>1, <2>2 DEF Restart, WorkInv, TypeOK, log
<1>3. EntryInv'
  BY AbsentKept DEF Restart, EntryInv
<1>4. OwnerInv' /\ LibraryInv'
  BY DEF Restart, OwnerInv, LibraryInv
<1> QED BY <1>2, <1>3, <1>4 DEF WorkInv

--------------------------------------------------------------------------------
LEMMA WorkInit == ASSUME Init PROVE WorkInv
<1>1. TypeOK
  <2>1. entries \in [Tapes -> Entries]
    BY AbsentKept DEF Init
  <2>2. obstacle \in [Tapes -> Obstacles]
    BY DEF Init
  <2>3. place \in [Tapes -> Libraries]
    BY DEF Init
  <2>4. attempt \in [Tapes -> Results \cup {"idle", "claimed", "working",
                                             "shutdown", "recorded"}]
    BY DEF Init
  <2>5. events \in 0..MaxEvents /\ moved \subseteq Tapes /\ libraries \subseteq Libraries
    BY DEF Init
  <2> QED BY <2>1, <2>2, <2>3, <2>4, <2>5 DEF Init, TypeOK
<1>2. EntryInv
  BY AbsentKept DEF Init, EntryInv
<1>3. OwnerInv /\ LibraryInv
  BY DEF Init, OwnerInv, LibraryInv
<1> QED BY <1>1, <1>2, <1>3 DEF WorkInv

LEMMA WorkNext == ASSUME WorkInv, [Next]_vars PROVE WorkInv'
<1>1. CASE Dispatch
  BY <1>1, TurnStep, ClaimStep, ScanStep, StopStep DEF Dispatch
<1>2. CASE Shutdown \/ Restart
  BY <1>2, ShutdownStep, RestartStep
<1>3. ASSUME NEW t \in Tapes, Attempt(t) \/ Reread(t) \/ Refresh(t)
      PROVE  WorkInv'
  BY <1>3, AdmitStep, WorkStep, RecordStep, FinishStep, AbandonStep, RereadStep,
     RefreshStep DEF Attempt
<1>4. ASSUME NEW t \in Tapes,
             Open(t) \/ EndSession(t) \/ closeout_tape(t) \/ ReleaseFence(t) \/ Retire(t)
      PROVE  WorkInv'
  BY <1>4, OpenStep, EndSessionStep, CloseoutTapeStep, ReleaseFenceStep, RetireStep
<1>5. ASSUME NEW l \in Libraries, Robotics(l) \/ \E t \in Tapes : Carry(t, l)
      PROVE  WorkInv'
  BY <1>5, RoboticsStep, CarryStep
<1>6. CASE UNCHANGED vars
  <2>1. TypeOK'
    BY <1>6 DEF vars, log, dispatcher, WorkInv, TypeOK
  <2> QED BY <1>6, <2>1, Frame DEF vars
<1> QED BY <1>1, <1>2, <1>3, <1>4, <1>5, <1>6 DEF Next

(* Entries, owners and libraries of the work list stay consistent, whatever *)
(* wakes, scans, refreshes, clients and restarts do meanwhile.              *)
THEOREM WorkInvariance == Spec => []WorkInv
BY WorkInit, WorkNext, PTL DEF Spec

(* The dispatcher, the attempts and the wakes keep every variable's type:   *)
(* no entry fails more often than `failed` lets it before it is parked.     *)
THEOREM WorkTypeCorrect == Spec => []TypeOK
<1>1. WorkInv => TypeOK
  BY DEF WorkInv
<1> QED BY <1>1, WorkInvariance, PTL

(* For every number of tapes and libraries, no two attempts do media work   *)
(* in one library, and an attempt's entry stays in the list until it ends   *)
(* (reserve_library, observe, forget).                                      *)
THEOREM AttemptsAreExclusive == Spec => []AttemptsExclusive
<1>1. WorkInv => AttemptsExclusive
  BY DEF WorkInv, EntryInv, Kept, LibraryInv, AttemptsExclusive
<1> QED BY <1>1, WorkInvariance, PTL
================================================================================
