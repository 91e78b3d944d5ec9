-------------------------- MODULE WriteSessionProofs --------------------------
(***************************************************************************)
(* Proofs about WriteSession, for every number of tapes, objects, events   *)
(* and faults: an object is committed once, and what a client was told     *)
(* holds, whatever barriers fail and whenever the host restarts; and a     *)
(* session that ended in the log leaves a tape that is admitted again.     *)
(***************************************************************************)
EXTENDS WriteSession, TLAPS

--------------------------------------------------------------------------------
(* Types. *)

Appending == {"ready", "admitted", "write", "sync", "commit"}
Committing == {"project", "decide", "done"}
Logs == [files : Seq(Objects \cup {"sidecar"}), open : BOOLEAN, due : BOOLEAN,
         plan : BOOLEAN, tail : Seq(Files), synced : Nat, doubt : BOOLEAN]
Tape == [files : Seq(Files), synced : Nat, under : Seq(Files), stale : BOOLEAN]
Evidence == [names : Seq(Files), synced : Nat, stopped : BOOLEAN]
Sessions ==
    [pc : {"closed", "closeout", "publish", "opening", "finish", "end"}
             \cup Appending \cup Committing,
     after : {"closed", "opening", "end"},
     trigger : {"none", "append", "explicit", "lost", "close", "timer"},
     obj : Objects \cup {"none"}, batch : Seq(Objects), number : Nat, waiting : Nat,
     receipts : SUBSET Objects, poisoned : BOOLEAN, sealed : BOOLEAN,
     reason : {"ClientDisconnected", "CleanClose", "FailedAppend", "Abort", "ClientStall",
               "DriveError", "CloseoutFailed"},
     tail : Evidence]
Timers == [kind : {"age", "idle"}, batch : Nat]
Answers == {"none", "written", "busy", "checkpointed", "failed", "uncertain"}

LogOK(l) == l \in Logs /\ l.synced <= Len(l.tail)
MediaOK(m) == m \in Tape /\ m.synced <= Len(m.files)
SessionOK(s) == s \in Sessions /\ s.tail.synced <= Len(s.tail.names)

SessionTypes ==
    /\ log \in [Tapes -> Logs] /\ media \in [Tapes -> Tape]
    /\ session \in [Tapes -> Sessions]
    /\ timers \in [Tapes -> SUBSET Timers]
    /\ told \in [Tapes -> [Objects -> Answers]]
    /\ catalog \in SUBSET Objects /\ admissions \in SUBSET Objects
    /\ promised \in SUBSET Objects
    /\ fence \in SUBSET Tapes /\ unread \in SUBSET Tapes

--------------------------------------------------------------------------------
(* The invariant: what holds of each tape, and between tapes. *)

(* Objects a session has claimed. *)
Pending(s) == ToSet(s.batch) \cup ({s.obj} \cap Objects)

(* Where the object of a call and the batch are in each step of a handler. *)
StageInv(s) ==
    /\ s.pc \notin {"admitted", "write", "sync", "commit"} \cup Committing => s.obj = "none"
    /\ s.pc \in {"admitted", "write"} => s.obj \in Objects /\ s.obj \notin ToSet(s.batch)
    /\ s.pc \in {"sync", "commit"} \cup Committing =>
          IF s.trigger = "append" THEN s.obj \in ToSet(s.batch) ELSE s.obj = "none"
    /\ s.pc \notin Appending \cup Committing => s.batch = <<>>
    /\ Len(s.batch) <= MaxBatch
    /\ s.pc \in {"ready", "admitted", "write"} => Len(s.batch) < MaxBatch
    /\ \A i, j \in 1..Len(s.batch) : i # j => s.batch[i] # s.batch[j]

(* A tape begins with these files. *)
Starts(m, files) ==
    Len(files) <= Len(m.files) /\ \A i \in 1..Len(files) : m.files[i] = files[i]

(* The tape holds what its log says, behind a barrier. *)
Kept(l, m) == Len(l.files) <= m.synced /\ Starts(m, l.files)

(* It holds behind that what the session has written. *)
TapeInv(l, m, s) ==
    /\ Kept(l, m)
    /\ s.pc = "opening" => s.tail.names = <<>>
    /\ s.pc \in Appending => s.tail.names = s.batch /\ Starts(m, l.files \o s.batch)
    /\ s.pc = "commit" => m.synced = Len(m.files)
    /\ s.pc = "publish" => Starts(m, Append(l.files, "sidecar"))

(* No object is twice in a log. *)
Once(l) ==
    \A i, j \in 1..Len(l.files) :
       i # j /\ l.files[i] = l.files[j] => l.files[i] \notin Objects

(* A session has projected its own log, so that what it appends is not in   *)
(* it.                                                                      *)
OwnInv(l, s, cat) ==
    /\ \/ s.pc \in Appending \cup {"opening", "decide", "done"}
       \/ s.pc \in {"closeout", "publish"} /\ s.after = "opening"
       => ObjectsOf(l.files) \subseteq cat
    /\ s.pc \in Appending => ToSet(s.batch) \cap ToSet(l.files) = {}
    /\ s.pc = "write" => s.obj \notin ToSet(l.files)
    /\ s.pc \in Committing => ToSet(s.batch) \subseteq ToSet(l.files)
    /\ Once(l)

(* What the session's client was told. *)
ToldInv(l, s, answers, prom) ==
    /\ s.receipts \subseteq prom \cup ToSet(l.files)
    /\ s.pc = "opening" \/ (s.pc \in {"closeout", "publish"} /\ s.after # "end") => ~l.open
    /\ \A o \in Objects :
          /\ answers[o] = "failed" => o \notin ToSet(l.files) \cup Pending(s)
          /\ answers[o] = "written" /\ l.open /\ ~s.poisoned /\ s.pc # "closed" =>
                o \in ToSet(s.batch) \cup ToSet(l.files)

(* Claims: a pending object is one session's; an object of a log is known   *)
(* to the catalog, still claimed, or of a log that a startup left out.      *)
ClaimInv ==
    /\ \A t \in Tapes : Pending(session[t]) \subseteq admissions
    /\ \A t, u \in Tapes : t # u => Pending(session[t]) \cap Pending(session[u]) = {}
    /\ \A t \in Tapes \ unread : ObjectsOf(log[t].files) \subseteq catalog \cup admissions
    /\ \A t \in Tapes, u \in Tapes \ unread : t # u =>
          \A o \in Pending(session[t]) \cap ToSet(log[u].files) :
             session[t].pc = "admitted" /\ o = session[t].obj /\ o \in catalog
    /\ \A t, u \in Tapes \ unread : t # u =>
          ObjectsOf(log[t].files) \cap ToSet(log[u].files) = {}

(* What the catalog or an answer says is committed is in a log. *)
LoggedInv ==
    \A o \in catalog \cup promised : \E t \in Tapes : o \in ToSet(log[t].files)

LocalInv(l, m, s, answers, cat, prom) ==
    /\ LogOK(l) /\ MediaOK(m) /\ SessionOK(s)
    /\ StageInv(s) /\ TapeInv(l, m, s) /\ OwnInv(l, s, cat) /\ ToldInv(l, s, answers, prom)

SessionInv ==
    /\ SessionTypes
    /\ \A t \in Tapes :
          LocalInv(log[t], media[t], session[t], told[t], catalog, promised)
    /\ ClaimInv
    /\ LoggedInv

--------------------------------------------------------------------------------
(* Sequences. *)

LEMMA ToSetElements ==
    ASSUME NEW S, NEW q \in Seq(S)
    PROVE  /\ ToSet(q) \subseteq S
           /\ \A o : o \in ToSet(q) <=> \E i \in 1..Len(q) : q[i] = o
BY DEF ToSet

LEMMA ToSetEmpty == ToSet(<<>>) = {}
BY DEF ToSet

LEMMA ToSetAppend ==
    ASSUME NEW S, NEW q \in Seq(S), NEW x \in S
    PROVE  Append(q, x) \in Seq(S) /\ ToSet(Append(q, x)) = ToSet(q) \cup {x}
<1> DEFINE r == Append(q, x)
<1>1. /\ r \in Seq(S) /\ Len(r) = Len(q) + 1 /\ Len(q) \in Nat
      /\ \A i \in 1..Len(q) : r[i] = q[i]
      /\ r[Len(q) + 1] = x
  OBVIOUS
<1> HIDE DEF r
<1>2. \A o : (\E i \in 1..Len(r) : r[i] = o) <=> (\E i \in 1..Len(q) : q[i] = o) \/ o = x
  BY <1>1
<1>3. \A o : o \in ToSet(r) <=> o \in ToSet(q) \/ o = x
  <2>1. /\ \A o : o \in ToSet(q) <=> \E i \in 1..Len(q) : q[i] = o
        /\ \A o : o \in ToSet(r) <=> \E i \in 1..Len(r) : r[i] = o
    BY <1>1, ToSetElements
  <2> QED BY <1>2, <2>1
<1>4. ToSet(r) = ToSet(q) \cup {x}
  BY <1>3
<1> QED BY <1>1, <1>4 DEF r

LEMMA ToSetConcat ==
    ASSUME NEW S, NEW q \in Seq(S), NEW p \in Seq(S)
    PROVE  /\ q \o p \in Seq(S) /\ ToSet(q \o p) = ToSet(q) \cup ToSet(p)
           /\ Len(q \o p) = Len(q) + Len(p)
           /\ \A i \in 1..Len(q) : (q \o p)[i] = q[i]
           /\ \A i \in 1..Len(p) : (q \o p)[Len(q) + i] = p[i]
<1> DEFINE r == q \o p
<1>1. /\ r \in Seq(S) /\ Len(r) = Len(q) + Len(p) /\ Len(q) \in Nat /\ Len(p) \in Nat
      /\ \A i \in 1..Len(r) : r[i] = IF i <= Len(q) THEN q[i] ELSE p[i - Len(q)]
  OBVIOUS
<1> HIDE DEF r
<1>2. /\ \A i \in 1..Len(q) : r[i] = q[i]
      /\ \A i \in 1..Len(p) : r[Len(q) + i] = p[i]
  <2>1. \A i \in 1..Len(q) : i \in 1..Len(r) /\ i <= Len(q)
    BY <1>1
  <2>2. \A i \in 1..Len(p) : /\ Len(q) + i \in 1..Len(r) /\ ~(Len(q) + i <= Len(q))
                              /\ (Len(q) + i) - Len(q) = i
    BY <1>1
  <2> QED BY <1>1, <2>1, <2>2
<1>3. ASSUME NEW o, NEW i \in 1..Len(r), r[i] = o
      PROVE  o \in ToSet(q) \cup ToSet(p)
  <2>1. CASE i <= Len(q)
    BY <1>1, <1>3, <2>1, ToSetElements
  <2>2. CASE ~(i <= Len(q))
    <3>1. i - Len(q) \in 1..Len(p) /\ p[i - Len(q)] = o
      BY <1>1, <1>3, <2>2
    <3> QED BY <3>1, ToSetElements
  <2> QED BY <2>1, <2>2
<1>4. ASSUME NEW o, NEW i \in 1..Len(q), q[i] = o PROVE o \in ToSet(r)
  <2>1. i \in 1..Len(r) /\ r[i] = o
    BY <1>1, <1>2, <1>4
  <2> QED BY <1>1, <2>1, ToSetElements
<1>5. ASSUME NEW o, NEW i \in 1..Len(p), p[i] = o PROVE o \in ToSet(r)
  <2>1. Len(q) + i \in 1..Len(r) /\ r[Len(q) + i] = o
    BY <1>1, <1>2, <1>5
  <2> QED BY <1>1, <2>1, ToSetElements
<1>6. ToSet(r) = ToSet(q) \cup ToSet(p)
  <2>1. /\ \A o : o \in ToSet(q) <=> \E i \in 1..Len(q) : q[i] = o
        /\ \A o : o \in ToSet(p) <=> \E i \in 1..Len(p) : p[i] = o
        /\ \A o : o \in ToSet(r) <=> \E i \in 1..Len(r) : r[i] = o
    BY <1>1, ToSetElements
  <2>2. \A o : o \in ToSet(r) <=> o \in ToSet(q) \/ o \in ToSet(p)
    BY <1>3, <1>4, <1>5, <2>1
  <2> QED BY <2>2
<1> QED BY <1>1, <1>2, <1>6 DEF r

(* The beginning of a sequence. *)
LEMMA CutOK ==
    ASSUME NEW S, NEW q \in Seq(S), NEW n \in 0..Len(q)
    PROVE  /\ Cut(q, n) \in Seq(S) /\ Len(Cut(q, n)) = n
           /\ \A i \in 1..n : Cut(q, n)[i] = q[i]
BY DEF Cut

LEMMA BehindOK ==
    ASSUME NEW S, NEW q \in Seq(S), NEW n \in 0..Len(q)
    PROVE  Behind(q, n) \in Seq(S) /\ Len(Behind(q, n)) \in Nat
BY DEF Behind

--------------------------------------------------------------------------------
(* The tape. *)

LEMMA SyncedOK ==
    ASSUME NEW m, MediaOK(m), NEW g, g = Synced(m)
    PROVE  MediaOK(g) /\ g.files = m.files /\ g.synced = Len(m.files)
<1> DEFINE n == Len(m.files)
<1>1. n \in Nat /\ m \in Tape
  BY DEF MediaOK, Tape
<1> DEFINE none == <<>>
<1>2. g = [m EXCEPT !.synced = n, !.under = none] /\ none \in Seq(Files)
  BY DEF Synced
<1> HIDE DEF n, none
<1>3. g \in Tape /\ g.files = m.files /\ g.synced = n
  BY <1>1, <1>2 DEF Tape
<1> QED BY <1>1, <1>3 DEF MediaOK, n

LEMMA StaleOK ==
    ASSUME NEW m, MediaOK(m), NEW b \in BOOLEAN, NEW g, g = [m EXCEPT !.stale = b]
    PROVE  MediaOK(g) /\ g.files = m.files /\ g.synced = m.synced
BY DEF MediaOK, Tape

(* A file is written behind the first n. *)
LEMMA OverwrittenOK ==
    ASSUME NEW m, MediaOK(m), NEW n \in 0..Len(m.files), NEW f \in Files,
           NEW g, g = Overwritten(m, n, f)
    PROVE  /\ MediaOK(g) /\ Len(g.files) = n + 1 /\ g.files[n + 1] = f
           /\ \A i \in 1..n : g.files[i] = m.files[i]
           /\ g.synced = n \/ g.synced = m.synced
<1> DEFINE c == Cut(m.files, n)
           r == Append(c, f)
           k == IF n < m.synced THEN n ELSE m.synced
           u == IF n < m.synced THEN SubSeq(m.files, n + 1, m.synced) ELSE m.under
<1>1. m \in Tape /\ m.files \in Seq(Files) /\ m.synced \in 0..Len(m.files) /\ n \in Nat
  BY DEF MediaOK, Tape
<1>2. c \in Seq(Files) /\ Len(c) = n /\ \A i \in 1..n : c[i] = m.files[i]
  BY <1>1, CutOK
<1> HIDE DEF c
<1>3. /\ r \in Seq(Files) /\ Len(r) = n + 1 /\ r[n + 1] = f
      /\ \A i \in 1..n : r[i] = m.files[i]
  BY <1>1, <1>2
<1>4. k \in Nat /\ k <= n + 1
  BY <1>1
<1>5. u \in Seq(Files)
  BY <1>1 DEF Tape
<1>6. g = [m EXCEPT !.files = r, !.stale = FALSE, !.synced = k, !.under = u]
  BY DEF Overwritten, c
<1> HIDE DEF r, k, u
<1>7. g \in Tape /\ g.files = r /\ g.synced = k
  BY <1>1, <1>3, <1>4, <1>5, <1>6 DEF Tape
<1> QED BY <1>3, <1>4, <1>7 DEF MediaOK, k

(* A drive that fails keeps the files behind a barrier. *)
LEMMA RemainsOK ==
    ASSUME NEW m, MediaOK(m), NEW g \in Remains(m)
    PROVE  /\ MediaOK(g) /\ m.synced <= g.synced
           /\ \A i \in 1..m.synced : g.files[i] = m.files[i]
<1>1. m \in Tape /\ m.files \in Seq(Files) /\ m.synced \in 0..Len(m.files)
      /\ m.under \in Seq(Files)
  BY DEF MediaOK, Tape
<1>2. CASE m.synced = Len(m.files)
  BY <1>1, <1>2 DEF Remains
<1>3. CASE m.synced # Len(m.files)
  <2> DEFINE Left(files, stale) ==
                 [files |-> files, synced |-> Len(files), under |-> <<>>, stale |-> stale]
             b == m.under # <<>> /\ m.files[m.synced + 1] \notin {"sidecar", "half"}
             c == Cut(m.files, m.synced)
  <2>1. \/ g = Left(c \o m.under, b)
        \/ \E n \in m.synced + 1..Len(m.files) : g = Left(Cut(m.files, n), FALSE)
        \/ \E n \in m.synced + 1..Len(m.files) :
               g = Left(Append(Cut(m.files, n - 1), Torn(m.files[n])), FALSE)
    BY <1>3 DEF Remains
  <2>2. ASSUME NEW q \in Seq(Files), NEW x \in BOOLEAN, m.synced <= Len(q), g = Left(q, x),
               \A i \in 1..m.synced : q[i] = m.files[i]
        PROVE  /\ MediaOK(g) /\ m.synced <= g.synced
               /\ \A i \in 1..m.synced : g.files[i] = m.files[i]
    BY <1>1, <2>2 DEF MediaOK, Tape
  <2> HIDE DEF Left
  <2>3. CASE g = Left(c \o m.under, b)
    <3>1. c \in Seq(Files) /\ Len(c) = m.synced /\ \A i \in 1..m.synced : c[i] = m.files[i]
      BY <1>1, CutOK
    <3> HIDE DEF c
    <3>2. /\ c \o m.under \in Seq(Files) /\ m.synced <= Len(c \o m.under)
          /\ \A i \in 1..m.synced : (c \o m.under)[i] = m.files[i]
      BY <1>1, <3>1, ToSetConcat
    <3> QED BY <2>2, <2>3, <3>2
  <2>4. ASSUME NEW n \in m.synced + 1..Len(m.files), g = Left(Cut(m.files, n), FALSE)
        PROVE  /\ MediaOK(g) /\ m.synced <= g.synced
               /\ \A i \in 1..m.synced : g.files[i] = m.files[i]
    <3>1. n \in 0..Len(m.files) /\ m.synced <= n
      BY <1>1
    <3>2. /\ Cut(m.files, n) \in Seq(Files) /\ m.synced <= Len(Cut(m.files, n))
          /\ \A i \in 1..m.synced : Cut(m.files, n)[i] = m.files[i]
      <4>1. /\ Cut(m.files, n) \in Seq(Files) /\ Len(Cut(m.files, n)) = n
            /\ \A i \in 1..n : Cut(m.files, n)[i] = m.files[i]
        BY <1>1, <3>1, CutOK
      <4>2. \A i \in 1..m.synced : i \in 1..n
        BY <1>1, <3>1
      <4> QED BY <3>1, <4>1, <4>2
    <3> QED BY <2>2, <2>4, <3>2
  <2>5. ASSUME NEW n \in m.synced + 1..Len(m.files),
               g = Left(Append(Cut(m.files, n - 1), Torn(m.files[n])), FALSE)
        PROVE  /\ MediaOK(g) /\ m.synced <= g.synced
               /\ \A i \in 1..m.synced : g.files[i] = m.files[i]
    <3> DEFINE d == Cut(m.files, n - 1)
               x == Torn(m.files[n])
    <3>1. n - 1 \in 0..Len(m.files) /\ m.synced <= n - 1
      BY <1>1
    <3>2. /\ d \in Seq(Files) /\ Len(d) = n - 1
          /\ \A i \in 1..n - 1 : d[i] = m.files[i]
      BY <1>1, <3>1, CutOK
    <3>3. x \in Files
      BY DEF Torn, Files
    <3> HIDE DEF d, x
    <3>4. /\ Append(d, x) \in Seq(Files) /\ m.synced <= Len(Append(d, x))
          /\ \A i \in 1..m.synced : Append(d, x)[i] = m.files[i]
      <4>1. /\ Append(d, x) \in Seq(Files) /\ Len(Append(d, x)) = n
            /\ \A i \in 1..n - 1 : Append(d, x)[i] = d[i]
        BY <1>1, <3>1, <3>2, <3>3
      <4>2. \A i \in 1..m.synced : i \in 1..n - 1
        BY <1>1, <3>1
      <4> QED BY <1>1, <3>1, <3>2, <4>1, <4>2
    <3> QED BY <2>2, <2>5, <3>4 DEF d, x
  <2> QED BY <2>1, <2>3, <2>4, <2>5
<1> QED BY <1>2, <1>3

--------------------------------------------------------------------------------
(* A step of one tape. *)

LEMMA Same ==
    ASSUME NEW T, NEW R, NEW f \in [T -> R], NEW t \in T
    PROVE  f = [f EXCEPT ![t] = f[t]]
OBVIOUS

(* The claims after a step of the tape t, to the log l and the session s. *)
Claims(t, l, s) ==
    /\ log' = [log EXCEPT ![t] = l] /\ session' = [session EXCEPT ![t] = s]
    /\ unread' = unread /\ catalog \subseteq catalog'
    /\ Pending(s) \subseteq admissions'
    /\ t \notin unread => ObjectsOf(l.files) \subseteq catalog' \cup admissions'
    /\ \A u \in Tapes \ {t} : /\ Pending(session[u]) \subseteq admissions'
                               /\ Pending(s) \cap Pending(session[u]) = {}
    /\ \A u \in Tapes \ (unread \cup {t}) :
          /\ ObjectsOf(log[u].files) \subseteq catalog' \cup admissions'
          /\ \A o \in Pending(s) \cap ToSet(log[u].files) :
                s.pc = "admitted" /\ o = s.obj /\ o \in catalog'
    /\ t \notin unread =>
          /\ \A u \in Tapes \ {t} : \A o \in Pending(session[u]) \cap ToSet(l.files) :
                session[u].pc = "admitted" /\ o = session[u].obj /\ o \in catalog'
          /\ \A u \in Tapes \ (unread \cup {t}) :
                ObjectsOf(l.files) \cap ToSet(log[u].files) = {}

LEMMA ClaimsStep ==
    ASSUME SessionTypes, ClaimInv, NEW t \in Tapes, NEW l, NEW s, Claims(t, l, s)
    PROVE  ClaimInv'
<1> USE DEF Claims
<1>1. /\ log'[t] = l /\ session'[t] = s
      /\ \A u \in Tapes \ {t} : log'[u] = log[u] /\ session'[u] = session[u]
  BY DEF SessionTypes
<1>2. \A u \in Tapes : Pending(session[u])' \subseteq admissions'
  BY <1>1 DEF Pending
<1>3. \A u, v \in Tapes : u # v => Pending(session[u])' \cap Pending(session[v])' = {}
  <2> SUFFICES ASSUME NEW u \in Tapes, NEW v \in Tapes, u # v
               PROVE  Pending(session'[u]) \cap Pending(session'[v]) = {}
    BY DEF Pending
  <2> QED BY <1>1 DEF ClaimInv
<1>4. \A u \in Tapes \ unread' : ObjectsOf(log[u].files)' \subseteq catalog' \cup admissions'
  BY <1>1 DEF ObjectsOf
<1>5. ASSUME NEW u \in Tapes, NEW v \in Tapes \ unread, u # v,
             NEW o \in Pending(session'[u]) \cap ToSet(log'[v].files)
      PROVE  session'[u].pc = "admitted" /\ o = session'[u].obj /\ o \in catalog'
  <2>1. CASE u = t
    BY <1>1, <1>5, <2>1
  <2>2. CASE v = t
    BY <1>1, <1>5, <2>2
  <2>3. CASE u # t /\ v # t
    BY <1>1, <1>5, <2>3 DEF ClaimInv
  <2> QED BY <2>1, <2>2, <2>3
<1>6. ASSUME NEW u \in Tapes \ unread, NEW v \in Tapes \ unread, u # v
      PROVE  ObjectsOf(log'[u].files) \cap ToSet(log'[v].files) = {}
  BY <1>1, <1>6 DEF ClaimInv, ObjectsOf
<1>7. \A u \in Tapes : \A v \in Tapes \ unread' : u # v =>
        \A o \in Pending(session[u])' \cap ToSet(log[v].files)' :
           session'[u].pc = "admitted" /\ o = session'[u].obj /\ o \in catalog'
  BY <1>5 DEF Pending, ToSet
<1>8. \A u, v \in Tapes \ unread' : u # v =>
        ObjectsOf(log[u].files)' \cap ToSet(log[v].files)' = {}
  BY <1>6 DEF ObjectsOf, ToSet
<1> QED BY <1>2, <1>3, <1>4, <1>7, <1>8 DEF ClaimInv

(* A step of the tape t, from its log, tape, session and answers to l, m, s *)
(* and a, that keeps all of the invariant but the claims.                   *)
Local(t, l, m, s, a) ==
    /\ log' = [log EXCEPT ![t] = l] /\ media' = [media EXCEPT ![t] = m]
    /\ session' = [session EXCEPT ![t] = s] /\ told' = [told EXCEPT ![t] = a]
    /\ a \in [Objects -> Answers]
    /\ timers' \in [Tapes -> SUBSET Timers] /\ unread' = unread /\ fence' \in SUBSET Tapes
    /\ catalog \subseteq catalog' /\ promised \subseteq promised'
    /\ catalog' \cup promised' \subseteq Objects /\ admissions' \in SUBSET Objects
    /\ LocalInv(l, m, s, a, catalog', promised')
    /\ ToSet(log[t].files) \subseteq ToSet(l.files)
    /\ catalog' \cup promised' \subseteq catalog \cup promised \cup ToSet(l.files)

LEMMA Assemble ==
    ASSUME SessionInv, NEW t \in Tapes, NEW l, NEW m, NEW s, NEW a, Local(t, l, m, s, a), ClaimInv'
    PROVE  SessionInv'
<1> USE DEF Local
<1>1. /\ log'[t] = l /\ session'[t] = s /\ media'[t] = m /\ told'[t] = a
      /\ \A u \in Tapes \ {t} : /\ log'[u] = log[u] /\ session'[u] = session[u]
                                 /\ media'[u] = media[u] /\ told'[u] = told[u]
  BY DEF SessionInv, SessionTypes
<1>2. l \in Logs /\ m \in Tape /\ s \in Sessions
  BY DEF LocalInv, LogOK, MediaOK, SessionOK
<1>3. SessionTypes'
  <2>1. /\ log' \in [Tapes -> Logs] /\ media' \in [Tapes -> Tape]
        /\ session' \in [Tapes -> Sessions] /\ told' \in [Tapes -> [Objects -> Answers]]
    BY <1>2 DEF SessionInv, SessionTypes
  <2>2. catalog' \in SUBSET Objects /\ promised' \in SUBSET Objects /\ unread' \in SUBSET Tapes
    BY DEF SessionInv, SessionTypes
  <2> QED BY <2>1, <2>2 DEF SessionTypes
<1>4. ASSUME NEW u \in Tapes
      PROVE  LocalInv(log'[u], media'[u], session'[u], told'[u], catalog', promised')
  <2>1. CASE u = t
    BY <1>1, <2>1
  <2>2. CASE u # t
    <3>1. LocalInv(log[u], media[u], session[u], told[u], catalog, promised)
      BY DEF SessionInv
    <3>2. OwnInv(log[u], session[u], catalog')
      <4>1. OwnInv(log[u], session[u], catalog)
        BY <3>1 DEF LocalInv
      <4> QED BY <4>1 DEF OwnInv
    <3>3. ToldInv(log[u], session[u], told[u], promised')
      <4>1. ToldInv(log[u], session[u], told[u], promised)
        BY <3>1 DEF LocalInv
      <4> QED BY <4>1 DEF ToldInv
    <3> QED BY <1>1, <2>2, <3>1, <3>2, <3>3 DEF LocalInv
  <2> QED BY <2>1, <2>2
<1>5. \A o \in catalog' \cup promised' : \E u \in Tapes : o \in ToSet(log'[u].files)
  <2> SUFFICES ASSUME NEW o \in catalog' \cup promised'
               PROVE  \E u \in Tapes : o \in ToSet(log'[u].files)
    OBVIOUS
  <2>1. CASE o \in ToSet(l.files)
    BY <1>1, <2>1
  <2>2. CASE o \notin ToSet(l.files)
    <3>1. PICK u \in Tapes : o \in ToSet(log[u].files)
      BY <2>2 DEF SessionInv, LoggedInv
    <3> QED BY <1>1, <2>2, <3>1
  <2> QED BY <2>1, <2>2
<1>6. LoggedInv'
  BY <1>5 DEF LoggedInv, ToSet
<1>7. \A u \in Tapes :
         LocalInv(log[u], media[u], session[u], told[u], catalog, promised)'
  BY <1>4 DEF LocalInv, LogOK, MediaOK, SessionOK, StageInv, TapeInv, OwnInv, ToldInv,
              Kept, Once, Starts, Pending, ObjectsOf, ToSet
<1> QED BY <1>3, <1>6, <1>7 DEF SessionInv

(* A step that claims nothing and adds no object to the log: an object it   *)
(* releases is no longer pending, and is in the catalog if it is in the log.*)
LEMMA ClaimsKept ==
    ASSUME SessionTypes, ClaimInv, NEW t \in Tapes, NEW l, NEW s,
           log' = [log EXCEPT ![t] = l], session' = [session EXCEPT ![t] = s],
           unread' = unread, catalog \subseteq catalog',
           \A o \in Objects : o \in ToSet(l.files) <=> o \in ToSet(log[t].files),
           Pending(s) \subseteq Pending(session[t]),
           admissions' \subseteq admissions,
           \A o \in admissions \ admissions' :
              /\ o \in Pending(session[t]) \ Pending(s)
              /\ o \in ToSet(log[t].files) => o \in catalog',
           session[t].pc = "admitted" =>
              session[t].obj \notin catalog \/ session[t].obj \notin Pending(s)
    PROVE  ClaimInv'
<1> DEFINE p == session[t]
<1>1. /\ \A u \in Tapes : Pending(session[u]) \subseteq admissions
      /\ \A u \in Tapes \ {t} : Pending(p) \cap Pending(session[u]) = {}
      /\ admissions \subseteq Objects
  BY DEF ClaimInv, SessionTypes
<1>2. /\ Pending(s) \subseteq admissions'
      /\ \A u \in Tapes \ {t} : /\ Pending(session[u]) \subseteq admissions'
                                 /\ Pending(s) \cap Pending(session[u]) = {}
  BY <1>1
<1>3. t \notin unread => ObjectsOf(l.files) \subseteq catalog' \cup admissions'
  BY DEF ClaimInv, ObjectsOf
<1>4. ASSUME NEW u \in Tapes \ (unread \cup {t})
      PROVE  ObjectsOf(log[u].files) \subseteq catalog' \cup admissions'
  BY <1>1 DEF ClaimInv, ObjectsOf
<1>5. ASSUME NEW u \in Tapes \ (unread \cup {t}),
             NEW o \in Pending(s) \cap ToSet(log[u].files)
      PROVE  s.pc = "admitted" /\ o = s.obj /\ o \in catalog'
  BY DEF ClaimInv
<1>6. t \notin unread =>
         /\ \A u \in Tapes \ {t} : \A o \in Pending(session[u]) \cap ToSet(l.files) :
               session[u].pc = "admitted" /\ o = session[u].obj /\ o \in catalog'
         /\ \A u \in Tapes \ (unread \cup {t}) :
               ObjectsOf(l.files) \cap ToSet(log[u].files) = {}
  <2> SUFFICES ASSUME t \notin unread
               PROVE  /\ \A u \in Tapes \ {t} : \A o \in Pending(session[u]) \cap ToSet(l.files) :
                            session[u].pc = "admitted" /\ o = session[u].obj /\ o \in catalog'
                      /\ \A u \in Tapes \ (unread \cup {t}) :
                            ObjectsOf(l.files) \cap ToSet(log[u].files) = {}
    OBVIOUS
  <2>1. ASSUME NEW u \in Tapes \ {t}, NEW o \in Pending(session[u]) \cap ToSet(l.files)
        PROVE  session[u].pc = "admitted" /\ o = session[u].obj /\ o \in catalog'
    <3>1. o \in Objects
      BY <1>1
    <3> QED BY <3>1 DEF ClaimInv
  <2>2. ASSUME NEW u \in Tapes \ (unread \cup {t})
        PROVE  ObjectsOf(l.files) \cap ToSet(log[u].files) = {}
    <3>1. ObjectsOf(log[t].files) \cap ToSet(log[u].files) = {}
      BY DEF ClaimInv
    <3> QED BY <3>1 DEF ObjectsOf
  <2> QED BY <2>1, <2>2
<1>7. Claims(t, l, s)
  BY <1>2, <1>3, <1>4, <1>5, <1>6 DEF Claims
<1> QED BY <1>7, ClaimsStep

(* A step of the tape t that claims nothing and adds no object to the log,  *)
(* from its log, tape, session and answers to l, m, s and a.                *)
Moves(t, l, m, s, a) ==
    /\ log' = [log EXCEPT ![t] = l] /\ media' = [media EXCEPT ![t] = m]
    /\ session' = [session EXCEPT ![t] = s] /\ told' = [told EXCEPT ![t] = a]
    /\ a \in [Objects -> Answers]
    /\ timers' \in [Tapes -> SUBSET Timers] /\ unread' = unread /\ fence' \in SUBSET Tapes
    /\ catalog \subseteq catalog' /\ promised \subseteq promised'
    /\ LocalInv(l, m, s, a, catalog', promised')
    /\ l.files = log[t].files \/ l.files = Append(log[t].files, "sidecar")
    /\ catalog' \subseteq catalog \cup ObjectsOf(log[t].files)
    /\ promised' \subseteq catalog \cup promised \cup ObjectsOf(log[t].files)
    /\ Pending(s) \subseteq Pending(session[t])
    /\ admissions' \subseteq admissions
    /\ \A o \in admissions \ admissions' :
          /\ o \in Pending(session[t]) \ Pending(s)
          /\ o \in ToSet(log[t].files) => o \in catalog'
    /\ session[t].pc = "admitted" =>
          session[t].obj \notin catalog \/ session[t].obj \notin Pending(s)

LEMMA Step ==
    ASSUME SessionInv, NEW t \in Tapes, NEW l, NEW m, NEW s, NEW a, Moves(t, l, m, s, a)
    PROVE  SessionInv'
<1> USE DEF Moves
<1>1. SessionTypes /\ ClaimInv
  BY DEF SessionInv
<1>2. /\ \A o \in Objects : o \in ToSet(l.files) <=> o \in ToSet(log[t].files)
      /\ ToSet(log[t].files) \subseteq ToSet(l.files)
  <2> DEFINE q == log[t].files
  <2>1. q \in Seq(Objects \cup {"sidecar"})
    BY <1>1 DEF SessionTypes, Logs
  <2> HIDE DEF q
  <2>2. ToSet(Append(q, "sidecar")) = ToSet(q) \cup {"sidecar"} /\ "sidecar" \notin Objects
    BY <2>1, ToSetAppend, SessionAssumption
  <2> QED BY <2>2 DEF q
<1>3. ClaimInv'
  BY <1>1, <1>2, ClaimsKept
<1>4. /\ catalog' \cup promised' \subseteq Objects
      /\ catalog' \cup promised' \subseteq catalog \cup promised \cup ToSet(l.files)
      /\ admissions' \in SUBSET Objects
  BY <1>1, <1>2 DEF SessionTypes, ObjectsOf
<1>5. Local(t, l, m, s, a)
  BY <1>2, <1>4 DEF Local
<1> QED BY <1>3, <1>5, Assemble

--------------------------------------------------------------------------------
(* What a step starts from. *)

LEMMA Facts ==
    ASSUME SessionInv, NEW t \in Tapes
    PROVE  /\ LocalInv(log[t], media[t], session[t], told[t], catalog, promised)
           /\ session[t] \in Sessions /\ log[t] \in Logs /\ media[t] \in Tape
           /\ told[t] \in [Objects -> Answers] /\ timers[t] \in SUBSET Timers
           /\ log = [log EXCEPT ![t] = log[t]] /\ media = [media EXCEPT ![t] = media[t]]
           /\ session = [session EXCEPT ![t] = session[t]]
           /\ told = [told EXCEPT ![t] = told[t]]
           /\ timers \in [Tapes -> SUBSET Timers] /\ fence \in SUBSET Tapes
           /\ Pending(session[t]) \subseteq admissions
           /\ catalog \subseteq Objects /\ admissions \subseteq Objects /\ promised \subseteq Objects
           /\ "none" \notin Objects /\ "sidecar" \notin Objects /\ MaxBatch \in Nat \ {0}
BY SessionAssumption DEF SessionInv, SessionTypes, ClaimInv

LEMMA AnsweredOK ==
    ASSUME SessionInv, NEW t \in Tapes, NEW S, NEW x \in Answers, told' = Answered(t, S, x)
    PROVE  \E a \in [Objects -> Answers] :
              /\ told' = [told EXCEPT ![t] = a]
              /\ \A o \in Objects : a[o] = IF o \in S THEN x ELSE told[t][o]
<1> DEFINE a == [o \in Objects |-> IF o \in S THEN x ELSE told[t][o]]
<1>1. told \in [Tapes -> [Objects -> Answers]]
  BY DEF SessionInv, SessionTypes
<1>2. /\ a \in [Objects -> Answers]
      /\ \A o \in Objects : a[o] = IF o \in S THEN x ELSE told[t][o]
  BY <1>1
<1>3. told' = [told EXCEPT ![t] = a]
  BY DEF Answered
<1> HIDE DEF a
<1> QED BY <1>2, <1>3

(* A session between batches: before its first append or after its last. *)
Resting(l, m, s, cat) ==
    /\ s.obj = "none" /\ s.batch = <<>>
    /\ \/ s.pc \in {"finish", "end", "closed"}
       \/ /\ s.pc \in {"closeout", "publish"} /\ (s.after = "end" \/ ~l.open)
          /\ s.after = "opening" => ObjectsOf(l.files) \subseteq cat
          /\ s.pc = "publish" => Starts(m, Append(l.files, "sidecar"))
       \/ s.pc = "opening" /\ ~l.open /\ s.tail.names = <<>> /\ ObjectsOf(l.files) \subseteq cat

LEMMA RestingOK ==
    ASSUME NEW l, NEW m, NEW s, NEW a, NEW cat, NEW prom,
           LogOK(l), MediaOK(m), SessionOK(s), Kept(l, m), Once(l), Resting(l, m, s, cat),
           "none" \notin Objects, MaxBatch \in Nat,
           s.receipts \subseteq prom \cup ToSet(l.files),
           \A o \in Objects :
              /\ a[o] = "failed" => o \notin ToSet(l.files)
              /\ a[o] = "written" /\ l.open /\ ~s.poisoned /\ s.pc # "closed" =>
                    o \in ToSet(l.files)
    PROVE  LocalInv(l, m, s, a, cat, prom) /\ Pending(s) = {}
<1> USE DEF Resting
<1>1. Pending(s) = {} /\ ToSet(s.batch) = {}
  BY ToSetEmpty DEF Pending
<1>2. StageInv(s)
  BY DEF StageInv, Appending, Committing
<1>3. TapeInv(l, m, s)
  BY DEF TapeInv, Appending
<1>4. OwnInv(l, s, cat)
  BY DEF OwnInv, Appending, Committing
<1>5. ToldInv(l, s, a, prom)
  BY <1>1 DEF ToldInv
<1> QED BY <1>1, <1>2, <1>3, <1>4, <1>5 DEF LocalInv

(* A sidecar is not an object. *)
LEMMA SidecarOnce ==
    ASSUME NEW l, LogOK(l), Once(l), NEW g, g.files = Append(l.files, "sidecar")
    PROVE  Once(g)
<1> DEFINE q == l.files
           r == g.files
<1>1. q \in Seq(Objects \cup {"sidecar"}) /\ "sidecar" \notin Objects /\ r = Append(q, "sidecar")
  BY SessionAssumption DEF LogOK, Logs
<1> HIDE DEF q, r
<1>2. /\ Len(r) = Len(q) + 1 /\ Len(q) \in Nat /\ r[Len(q) + 1] = "sidecar"
      /\ \A i \in 1..Len(q) : r[i] = q[i]
  BY <1>1
<1>3. ASSUME NEW i \in 1..Len(r), NEW j \in 1..Len(r), i # j, r[i] = r[j], r[i] \in Objects
      PROVE  FALSE
  <2>1. i \in 1..Len(q) /\ j \in 1..Len(q)
    BY <1>1, <1>2, <1>3
  <2> QED BY <1>2, <1>3, <2>1 DEF Once, q
<1> QED BY <1>3 DEF Once, r

--------------------------------------------------------------------------------
(* One lemma per action. *)

LEMMA WriteRefusedStep ==
    ASSUME SessionInv, NEW t \in Tapes, WriteRefused(t) PROVE SessionInv'
<1> DEFINE p == session[t]
           s == [p EXCEPT !.pc = "ready", !.obj = "none"]
           l == log[t]
           m == media[t]
           S == {p.obj}
<1>1. /\ p.pc = "write" /\ session' = [session EXCEPT ![t] = s]
      /\ told' = Answered(t, S, "failed") /\ promised' = promised
      /\ admissions' = admissions \ S
      /\ UNCHANGED <<log, media, catalog, timers, fence, unread>>
  BY DEF WriteRefused, At, Become, Answer, Fault
<1>2. /\ LocalInv(l, m, p, told[t], catalog, promised) /\ p \in Sessions
      /\ "none" \notin Objects
  BY Facts
<1> HIDE DEF p, l, m, S
<1>3. PICK a \in [Objects -> Answers] :
         /\ told' = [told EXCEPT ![t] = a]
         /\ \A o \in Objects : a[o] = IF o \in S THEN "failed" ELSE told[t][o]
  BY <1>1, AnsweredOK DEF Answers
<1>4. /\ s \in Sessions /\ s.pc = "ready" /\ s.obj = "none" /\ s.batch = p.batch
      /\ s.tail = p.tail /\ s.receipts = p.receipts /\ s.poisoned = p.poisoned
  BY <1>2 DEF Sessions, Appending, Committing
<1> HIDE DEF s
<1>5. p.obj \notin ToSet(p.batch) /\ p.obj \notin ToSet(l.files) /\ p.obj \in Objects
  BY <1>1, <1>2 DEF LocalInv, StageInv, OwnInv
<1>6. Pending(p) = ToSet(p.batch) \cup S /\ Pending(s) = ToSet(p.batch)
  BY <1>2, <1>4, <1>5 DEF Pending, S
<1>7. LocalInv(l, m, s, a, catalog', promised')
  <2>1. SessionOK(s) /\ LogOK(l) /\ MediaOK(m)
    BY <1>2, <1>4 DEF LocalInv, SessionOK
  <2>2. StageInv(s)
    BY <1>1, <1>2, <1>4 DEF LocalInv, StageInv, Appending, Committing
  <2>3. TapeInv(l, m, s)
    BY <1>1, <1>2, <1>4 DEF LocalInv, TapeInv, Appending
  <2>4. OwnInv(l, s, catalog')
    BY <1>1, <1>2, <1>4 DEF LocalInv, OwnInv, Appending, Committing
  <2>5. ToldInv(l, s, a, promised')
    BY <1>1, <1>2, <1>3, <1>4, <1>5, <1>6 DEF LocalInv, ToldInv, S
  <2> QED BY <2>1, <2>2, <2>3, <2>4, <2>5 DEF LocalInv
<1>8. Moves(t, l, m, s, a)
  BY <1>1, <1>3, <1>5, <1>6, <1>7, Facts DEF Moves, p, l, m, S
<1> QED BY <1>8, Step

LEMMA ReplayStep ==
    ASSUME SessionInv, NEW t \in Tapes, maybe_replay_pool_write(t) PROVE SessionInv'
<1> DEFINE p == session[t]
           l == log[t]
           m == media[t]
           S == {p.obj}
<1>1. p.pc = "admitted" /\ UNCHANGED <<log, media, catalog, timers, fence, unread>>
  BY DEF maybe_replay_pool_write, At, Quiet
<1>2. /\ LocalInv(l, m, p, told[t], catalog, promised) /\ p \in Sessions
      /\ "none" \notin Objects /\ told[t] \in [Objects -> Answers] /\ promised \subseteq Objects
  BY Facts
<1>3. p.obj \notin ToSet(p.batch) /\ p.obj \in Objects
  BY <1>1, <1>2 DEF LocalInv, StageInv, OwnInv
<1>4. SessionOK(p) /\ LogOK(l) /\ MediaOK(m)
  BY <1>2 DEF LocalInv
<1>5. Pending(p) = ToSet(p.batch) \cup S
  BY <1>3 DEF Pending
<1>6. CASE p.obj \in catalog
  <2> DEFINE R == p.receipts \cup S
             s == [p EXCEPT !.pc = "ready", !.obj = "none", !.receipts = R]
  <2>1. /\ session' = [session EXCEPT ![t] = s]
        /\ told' = Answered(t, S, "checkpointed") /\ promised' = promised \cup S
        /\ admissions' = admissions \ S
    BY <1>6 DEF maybe_replay_pool_write, Become, Answer
  <2>2. R \in SUBSET Objects
    BY <1>2, <1>3 DEF Sessions
  <2> HIDE DEF p, l, m, S, R
  <2>3. PICK a \in [Objects -> Answers] :
           /\ told' = [told EXCEPT ![t] = a]
           /\ \A o \in Objects : a[o] = IF o \in S THEN "checkpointed" ELSE told[t][o]
    BY <2>1, AnsweredOK DEF Answers
  <2>4. /\ s \in Sessions /\ s.pc = "ready" /\ s.obj = "none" /\ s.batch = p.batch
        /\ s.tail = p.tail /\ s.receipts = R /\ s.poisoned = p.poisoned
    BY <1>2, <2>2 DEF Sessions, Appending, Committing
  <2> HIDE DEF s
  <2>5. Pending(s) = ToSet(p.batch)
    BY <1>2, <2>4 DEF Pending
  <2>6. LocalInv(l, m, s, a, catalog', promised')
    <3>1. SessionOK(s)
      BY <1>4, <2>4 DEF SessionOK
    <3>2. StageInv(s)
      BY <1>1, <1>2, <2>4 DEF LocalInv, StageInv, Appending, Committing
    <3>3. TapeInv(l, m, s)
      BY <1>1, <1>2, <2>4 DEF LocalInv, TapeInv, Appending
    <3>4. OwnInv(l, s, catalog')
      BY <1>1, <1>2, <2>4 DEF LocalInv, OwnInv, Appending, Committing
    <3>5. ToldInv(l, s, a, promised')
      <4>1. ToldInv(l, p, told[t], promised)
        BY <1>2 DEF LocalInv
      <4>2. s.receipts \subseteq promised' \cup ToSet(l.files)
        BY <2>1, <2>4, <4>1 DEF ToldInv, R
      <4>3. \A o \in Objects : (a[o] = "failed" => told[t][o] = "failed")
                               /\ (a[o] = "written" => told[t][o] = "written")
        BY <2>3
      <4> QED BY <1>1, <1>5, <2>4, <2>5, <4>1, <4>2, <4>3 DEF ToldInv
    <3> QED BY <1>4, <3>1, <3>2, <3>3, <3>4, <3>5 DEF LocalInv
  <2>7. Moves(t, l, m, s, a)
    BY <1>1, <1>3, <1>5, <1>6, <2>1, <2>3, <2>5, <2>6, Facts DEF Moves, p, l, m, S
  <2> QED BY <2>7, Step
<1>7. CASE p.obj \notin catalog
  <2> DEFINE s == [p EXCEPT !.pc = "write"]
  <2>1. /\ session' = [session EXCEPT ![t] = s]
        /\ told' = told /\ promised' = promised /\ admissions' = admissions
    BY <1>7 DEF maybe_replay_pool_write, Go, Become
  <2> HIDE DEF p, l, m, S
  <2>2. /\ s \in Sessions /\ s.pc = "write" /\ s.obj = p.obj /\ s.batch = p.batch
        /\ s.tail = p.tail /\ s.receipts = p.receipts /\ s.poisoned = p.poisoned
    BY <1>2 DEF Sessions, Appending, Committing
  <2> HIDE DEF s
  <2>3. Pending(s) = Pending(p)
    BY <2>2 DEF Pending
  <2>4. p.obj \notin ToSet(l.files)
    BY <1>1, <1>2, <1>3, <1>7 DEF LocalInv, OwnInv, ObjectsOf, Appending
  <2>5. LocalInv(l, m, s, told[t], catalog', promised')
    <3>1. SessionOK(s)
      BY <1>4, <2>2 DEF SessionOK
    <3>2. StageInv(s)
      BY <1>1, <1>2, <2>2 DEF LocalInv, StageInv, Appending, Committing
    <3>3. TapeInv(l, m, s)
      BY <1>1, <1>2, <2>2 DEF LocalInv, TapeInv, Appending
    <3>4. OwnInv(l, s, catalog')
      BY <1>1, <1>2, <2>2, <2>4 DEF LocalInv, OwnInv, Appending, Committing
    <3>5. ToldInv(l, s, told[t], promised')
      BY <1>1, <1>2, <2>1, <2>2, <2>3 DEF LocalInv, ToldInv
    <3> QED BY <1>4, <3>1, <3>2, <3>3, <3>4, <3>5 DEF LocalInv
  <2>6. Moves(t, l, m, s, told[t])
    BY <1>1, <1>7, <2>1, <2>3, <2>5, Facts DEF Moves, p, l, m
  <2> QED BY <2>6, Step
<1> QED BY <1>6, <1>7

(* A step of the tape t that leaves its session between batches. *)
Rests(t, l, m, s, a) ==
    /\ log' = [log EXCEPT ![t] = l] /\ media' = [media EXCEPT ![t] = m]
    /\ session' = [session EXCEPT ![t] = s] /\ told' = [told EXCEPT ![t] = a]
    /\ a \in [Objects -> Answers]
    /\ timers' \in [Tapes -> SUBSET Timers] /\ fence' \in SUBSET Tapes /\ unread' = unread
    /\ catalog \subseteq catalog' /\ catalog' \subseteq catalog \cup ObjectsOf(log[t].files)
    /\ promised \subseteq promised'
    /\ promised' \subseteq catalog \cup promised \cup ObjectsOf(log[t].files)
    /\ LogOK(l) /\ MediaOK(m) /\ SessionOK(s) /\ Kept(l, m)
    /\ l.files = log[t].files \/ l.files = Append(log[t].files, "sidecar")
    /\ Resting(l, m, s, catalog')
    /\ admissions' \subseteq admissions
    /\ \A o \in admissions \ admissions' :
          o \in Pending(session[t]) /\ (o \in ToSet(log[t].files) => o \in catalog')
    /\ s.receipts \subseteq promised' \cup ToSet(l.files)
    /\ \A o \in Objects :
          /\ a[o] = "failed" => o \notin ToSet(l.files)
          /\ a[o] = "written" /\ l.open /\ ~s.poisoned /\ s.pc # "closed" =>
                o \in ToSet(l.files)

LEMMA RestsStep ==
    ASSUME SessionInv, NEW t \in Tapes, NEW l, NEW m, NEW s, NEW a, Rests(t, l, m, s, a)
    PROVE  SessionInv'
<1>1. "none" \notin Objects /\ MaxBatch \in Nat
  BY Facts
<1>2. Once(l)
  <2>1. Once(log[t]) /\ LogOK(log[t])
    BY Facts DEF LocalInv, OwnInv
  <2>2. CASE l.files = log[t].files
    BY <2>1, <2>2 DEF Once
  <2>3. CASE l.files = Append(log[t].files, "sidecar")
    BY <2>1, <2>3, SidecarOnce
  <2> QED BY <2>2, <2>3 DEF Rests
<1>3. LocalInv(l, m, s, a, catalog', promised') /\ Pending(s) = {}
  BY <1>1, <1>2, RestingOK DEF Rests
<1>4. Moves(t, l, m, s, a)
  BY <1>3 DEF Rests, Moves
<1> QED BY <1>4, Step

(* g is the logs with that of t replaced by l. *)
Replaces(g, t, l) == g = [log EXCEPT ![t] = l]

(* A log in doubt says what it said. *)
LEMMA DoubtOK ==
    ASSUME SessionInv, NEW t \in Tapes, NEW l, LogOK(l), NEW g, Replaces(g, t, l)
    PROVE  \E d : /\ Replaces(InDoubt(t, g), t, d) /\ LogOK(d)
                  /\ d.files = l.files /\ d.open = l.open /\ d.due = l.due
                  /\ d.tail = l.tail /\ d.synced = l.synced
<1> DEFINE d == [l EXCEPT !.doubt = TRUE]
<1>1. log \in [Tapes -> Logs] /\ l \in Logs /\ l.synced <= Len(l.tail)
  BY DEF SessionInv, SessionTypes, LogOK
<1>2. InDoubt(t, g) = [log EXCEPT ![t] = d]
  <2>1. g[t] = l /\ InDoubt(t, g) = [g EXCEPT ![t] = [g[t] EXCEPT !.doubt = TRUE]]
    BY <1>1 DEF InDoubt, Replaces
  <2> QED BY <1>1, <2>1 DEF Replaces
<1>3. /\ d \in Logs /\ d.files = l.files /\ d.open = l.open /\ d.due = l.due
      /\ d.tail = l.tail /\ d.synced = l.synced
  BY <1>1 DEF Logs
<1> HIDE DEF d
<1>4. Replaces(InDoubt(t, g), t, d) /\ LogOK(d)
  BY <1>1, <1>2, <1>3 DEF Replaces, LogOK
<1> QED BY <1>3, <1>4

(* So does one whose plan may have been published. *)
LEMMA UnplannedOK ==
    ASSUME SessionInv, NEW t \in Tapes, NEW g \in Unplanned(t)
    PROVE  \E l : /\ g = [log EXCEPT ![t] = l] /\ LogOK(l)
                  /\ l.files = log[t].files /\ l.open = log[t].open /\ l.due = log[t].due
<1> DEFINE k == log[t]
           l == [k EXCEPT !.plan = TRUE]
<1>1. LogOK(k) /\ log = [log EXCEPT ![t] = k]
  BY Facts DEF LocalInv
<1>2. Planned(t) = [log EXCEPT ![t] = l]
  BY DEF Planned
<1> HIDE DEF k
<1>3. LogOK(l) /\ l.files = k.files /\ l.open = k.open /\ l.due = k.due
  BY <1>1 DEF LogOK, Logs
<1> HIDE DEF l
<1>4. g \in {log, Planned(t), InDoubt(t, log), InDoubt(t, Planned(t))}
  BY DEF Unplanned
<1>5. CASE g \in {log, Planned(t)}
  BY <1>1, <1>2, <1>3, <1>5 DEF k
<1>6. CASE g = InDoubt(t, log)
  <2>1. Replaces(log, t, k)
    BY <1>1 DEF Replaces
  <2>2. LogOK(k)
    BY <1>1
  <2>3. PICK d : /\ Replaces(InDoubt(t, log), t, d) /\ LogOK(d)
                 /\ d.files = k.files /\ d.open = k.open /\ d.due = k.due
    BY <2>1, <2>2, DoubtOK
  <2> QED BY <1>6, <2>3 DEF k, Replaces
<1>7. CASE g = InDoubt(t, Planned(t))
  <2>1. Replaces(Planned(t), t, l)
    BY <1>2 DEF Replaces
  <2>2. PICK d : /\ Replaces(InDoubt(t, Planned(t)), t, d) /\ LogOK(d)
                 /\ d.files = l.files /\ d.open = l.open /\ d.due = l.due
    BY <1>3, <2>1, DoubtOK
  <2> QED BY <1>3, <1>7, <2>2 DEF k, Replaces
<1> QED BY <1>4, <1>5, <1>6, <1>7

LEMMA RolloverStep ==
    ASSUME SessionInv, NEW t \in Tapes, Rollover(t) PROVE SessionInv'
<1> DEFINE p == session[t]
           m == media[t]
           S == {p.obj}
           ending == [p EXCEPT !.pc = "finish", !.obj = "none"]
<1>1. /\ p.pc = "write" /\ p.batch = <<>>
      /\ told' = Answered(t, S, "failed") /\ promised' = promised
      /\ admissions' = admissions \ S
      /\ UNCHANGED <<media, catalog, timers, fence, unread>>
      /\ \/ /\ log' = [log EXCEPT ![t] = [log[t] EXCEPT !.plan = TRUE]]
            /\ session' = [session EXCEPT ![t] =
                             [ending EXCEPT !.sealed = TRUE, !.reason = "CleanClose"]]
         \/ /\ session' = [session EXCEPT ![t] =
                             [ending EXCEPT !.poisoned = TRUE, !.reason = "FailedAppend"]]
            /\ log' \in Unplanned(t)
  BY DEF Rollover, Planned, At, Fault, Answer, Become
<1>2. /\ LocalInv(log[t], m, p, told[t], catalog, promised) /\ p \in Sessions
      /\ log = [log EXCEPT ![t] = log[t]]
  BY Facts
<1> HIDE DEF p, m, S
<1>3. PICK a \in [Objects -> Answers] :
         /\ told' = [told EXCEPT ![t] = a]
         /\ \A o \in Objects : a[o] = IF o \in S THEN "failed" ELSE told[t][o]
  BY <1>1, AnsweredOK DEF Answers
<1>4. /\ p.obj \in Objects /\ p.obj \notin ToSet(log[t].files) /\ Pending(p) = S
      /\ ToSet(p.batch) = {}
  BY <1>1, <1>2, ToSetEmpty DEF LocalInv, StageInv, OwnInv, Pending, S
<1>5. ASSUME NEW l, NEW s, LogOK(l), l.files = log[t].files, l.open = log[t].open,
             log' = [log EXCEPT ![t] = l], session' = [session EXCEPT ![t] = s],
             s \in Sessions, s.pc = "finish", s.obj = "none", s.batch = p.batch,
             s.tail = p.tail, s.receipts = p.receipts, s.poisoned \in {p.poisoned, TRUE}
      PROVE  SessionInv'
  <2>1. SessionOK(s)
    BY <1>2, <1>5 DEF LocalInv, SessionOK
  <2>2. MediaOK(m) /\ Kept(l, m)
    BY <1>2, <1>5 DEF LocalInv, TapeInv, Kept
  <2>3. s.receipts \subseteq promised' \cup ToSet(l.files)
    BY <1>1, <1>2, <1>5 DEF LocalInv, ToldInv
  <2>4. \A o \in Objects :
          /\ a[o] = "failed" => o \notin ToSet(l.files)
          /\ a[o] = "written" /\ l.open /\ ~s.poisoned => o \in ToSet(l.files)
    BY <1>1, <1>2, <1>3, <1>4, <1>5 DEF LocalInv, ToldInv, S
  <2>5. Rests(t, l, m, s, a)
    BY <1>1, <1>3, <1>4, <1>5, <2>1, <2>2, <2>3, <2>4, Facts DEF Rests, Resting, p, m, S
  <2> QED BY <2>5, RestsStep
<1>6. CASE log' = [log EXCEPT ![t] = [log[t] EXCEPT !.plan = TRUE]]
           /\ session' = [session EXCEPT ![t] =
                            [ending EXCEPT !.sealed = TRUE, !.reason = "CleanClose"]]
  <2> DEFINE l == [log[t] EXCEPT !.plan = TRUE]
             s == [ending EXCEPT !.sealed = TRUE, !.reason = "CleanClose"]
  <2>1. LogOK(l) /\ l.files = log[t].files /\ l.open = log[t].open
    BY <1>2 DEF LocalInv, LogOK, Logs
  <2>2. /\ s \in Sessions /\ s.pc = "finish" /\ s.obj = "none" /\ s.batch = p.batch
        /\ s.tail = p.tail /\ s.receipts = p.receipts /\ s.poisoned = p.poisoned
    BY <1>2 DEF Sessions, Appending, Committing
  <2> HIDE DEF l, s
  <2> QED BY <1>5, <1>6, <2>1, <2>2 DEF l, s
<1>7. CASE /\ session' = [session EXCEPT ![t] =
                            [ending EXCEPT !.poisoned = TRUE, !.reason = "FailedAppend"]]
           /\ log' \in Unplanned(t)
  <2> DEFINE s == [ending EXCEPT !.poisoned = TRUE, !.reason = "FailedAppend"]
  <2>1. PICK l : /\ log' = [log EXCEPT ![t] = l] /\ LogOK(l)
                 /\ l.files = log[t].files /\ l.open = log[t].open
    BY <1>7, UnplannedOK
  <2>2. /\ s \in Sessions /\ s.pc = "finish" /\ s.obj = "none" /\ s.batch = p.batch
        /\ s.tail = p.tail /\ s.receipts = p.receipts /\ s.poisoned = TRUE
    BY <1>2 DEF Sessions, Appending, Committing
  <2> HIDE DEF s
  <2> QED BY <1>5, <1>7, <2>1, <2>2 DEF s
<1> QED BY <1>1, <1>6, <1>7

(* Where an append writes: behind the log's files and the batch. *)
LEMMA PlaceOK ==
    ASSUME NEW l, NEW m, NEW s, LogOK(l), MediaOK(m), s \in Sessions, TapeInv(l, m, s),
           s.pc = "write", NEW f \in Files
    PROVE  LET g == Overwritten(m, Len(l.files) + Len(s.tail.names), f)
           IN  MediaOK(g) /\ Kept(l, g) /\ Starts(g, l.files \o Append(s.batch, f))
<1> DEFINE g == Overwritten(m, Len(l.files) + Len(s.tail.names), f)
           q == l.files
           b == s.batch
           n == Len(q) + Len(b)
           d == q \o b
           c == Append(b, f)
           e == q \o c
<1>1. /\ q \in Seq(Files) /\ b \in Seq(Files) /\ Len(q) \in Nat /\ Len(b) \in Nat /\ n \in Nat
  BY DEF LogOK, Logs, Sessions, Files
<1>2. Len(q) <= m.synced /\ Starts(m, q) /\ Starts(m, d) /\ s.tail.names = b
  BY DEF TapeInv, Kept, Appending
<1>3. g = Overwritten(m, n, f)
  BY <1>2
<1> HIDE DEF q, b, g
<1>4. /\ Len(d) = Len(q) + Len(b)
      /\ \A i \in 1..Len(q) : d[i] = q[i]
      /\ \A i \in 1..Len(b) : d[Len(q) + i] = b[i]
  BY <1>1, ToSetConcat
<1>5. /\ c \in Seq(Files) /\ Len(c) = Len(b) + 1 /\ c[Len(b) + 1] = f
      /\ \A i \in 1..Len(b) : c[i] = b[i]
  BY <1>1
<1> HIDE DEF c
<1>6. /\ Len(e) = Len(q) + Len(c)
      /\ \A i \in 1..Len(q) : e[i] = q[i]
      /\ \A i \in 1..Len(c) : e[Len(q) + i] = c[i]
  BY <1>1, <1>5, ToSetConcat
<1>7. m.files \in Seq(Files) /\ Len(m.files) \in Nat /\ m.synced \in Nat
  BY DEF MediaOK, Tape
<1> HIDE DEF d, e
<1>8. n <= Len(m.files) /\ \A i \in 1..n : m.files[i] = d[i]
  BY <1>2, <1>4 DEF Starts, n
<1>9. Len(q) <= n /\ n \in 0..Len(m.files)
  BY <1>1, <1>7, <1>8
<1> HIDE DEF n
<1>10. /\ MediaOK(g) /\ Len(g.files) = n + 1 /\ g.files[n + 1] = f
       /\ \A i \in 1..n : g.files[i] = m.files[i]
       /\ g.synced = n \/ g.synced = m.synced
  BY <1>3, <1>9, OverwrittenOK
<1>11. Kept(l, g)
  <2>1. Len(q) <= g.synced
    BY <1>1, <1>2, <1>7, <1>9, <1>10
  <2>2. \A i \in 1..Len(q) : i \in 1..n
    BY <1>1, <1>9
  <2>3. Starts(g, q)
    BY <1>1, <1>2, <1>9, <1>10, <2>2 DEF Starts
  <2> QED BY <2>1, <2>3 DEF Kept, q
<1>12. Starts(g, e)
  <2>1. ASSUME NEW i \in 1..n + 1 PROVE g.files[i] = e[i]
    <3>1. CASE i = n + 1
      <4>1. Len(b) + 1 \in 1..Len(c) /\ i = Len(q) + (Len(b) + 1)
        BY <1>1, <1>5, <3>1 DEF n
      <4> QED BY <1>5, <1>6, <1>10, <3>1, <4>1
    <3>2. CASE i \in 1..Len(q)
      <4>1. i \in 1..n
        BY <1>1, <1>9, <3>2
      <4> QED BY <1>4, <1>6, <1>8, <1>10, <3>2, <4>1
    <3>3. CASE i # n + 1 /\ i \notin 1..Len(q)
      <4>1. /\ i - Len(q) \in 1..Len(b) /\ i - Len(q) \in 1..Len(c) /\ i \in 1..n
            /\ Len(q) + (i - Len(q)) = i
        BY <1>1, <1>5, <3>3 DEF n
      <4>2. e[i] = c[i - Len(q)] /\ d[i] = b[i - Len(q)]
        BY <1>4, <1>6, <4>1
      <4> QED BY <1>5, <1>8, <1>10, <4>1, <4>2
    <3> QED BY <3>1, <3>2, <3>3
  <2>2. Len(e) = n + 1
    BY <1>1, <1>5, <1>6 DEF n
  <2>3. Len(e) <= Len(g.files)
    BY <1>1, <1>10, <2>2
  <2>4. \A i \in 1..Len(e) : g.files[i] = e[i]
    BY <2>1, <2>2
  <2> QED BY <2>3, <2>4 DEF Starts
<1> QED BY <1>10, <1>11, <1>12 DEF q, b, c, e, g

LEMMA WriteFailsStep ==
    ASSUME SessionInv, NEW t \in Tapes, WriteFails(t) PROVE SessionInv'
<1> DEFINE p == session[t]
           l == log[t]
           S == ToSet(p.batch) \cup {p.obj}
           none == <<>>
           Lost(e) == [p EXCEPT !.pc = "finish", !.obj = "none", !.batch = none,
                                !.poisoned = TRUE, !.reason = "FailedAppend", !.tail = e]
<1>1. /\ p.pc = "write" /\ told' = Answered(t, S, "failed") /\ promised' = promised
      /\ admissions' = admissions \ S
      /\ UNCHANGED <<log, catalog, timers, fence, unread>>
  BY DEF WriteFails, At, Fault, Answer
<1>2. \/ /\ \E f \in {"torn", p.obj} : Place(t, f)
         /\ \E stopped \in BOOLEAN :
               session' = [session EXCEPT ![t] =
                             Lost([dispatched(p.tail, p.obj) EXCEPT !.stopped = stopped])]
      \/ media' = media /\ session' = [session EXCEPT ![t] = Lost(p.tail)]
  BY DEF WriteFails, Become
<1>3. /\ LocalInv(l, media[t], p, told[t], catalog, promised) /\ p \in Sessions
      /\ none \in Seq(Objects) /\ "none" \notin Objects
      /\ log' = [log EXCEPT ![t] = l] /\ media = [media EXCEPT ![t] = media[t]]
  BY <1>1, Facts
<1>4. p.obj \in Objects /\ p.obj \notin ToSet(l.files) /\ ToSet(p.batch) \cap ToSet(l.files) = {}
  BY <1>1, <1>3 DEF LocalInv, StageInv, OwnInv, Appending
<1>5. Pending(p) = S
  BY <1>4 DEF Pending
<1>6. p.tail \in Evidence /\ p.tail.synced <= Len(p.tail.names) /\ p.obj \in Files
  BY <1>3, <1>4 DEF LocalInv, SessionOK, Sessions, Files
<1> HIDE DEF p, l, S, none
<1>7. PICK a \in [Objects -> Answers] :
         /\ told' = [told EXCEPT ![t] = a]
         /\ \A o \in Objects : a[o] = IF o \in S THEN "failed" ELSE told[t][o]
  BY <1>1, AnsweredOK DEF Answers
<1>8. ASSUME NEW m, media' = [media EXCEPT ![t] = m], MediaOK(m), Kept(l, m),
             NEW e \in Evidence, e.synced <= Len(e.names),
             session' = [session EXCEPT ![t] = Lost(e)]
      PROVE  SessionInv'
  <2> DEFINE s == Lost(e)
  <2>1. /\ s \in Sessions /\ s.pc = "finish" /\ s.obj = "none" /\ s.batch = none
        /\ s.tail = e /\ s.receipts = p.receipts /\ s.poisoned = TRUE
    BY <1>3 DEF Sessions, Appending, Committing
  <2>2. session' = [session EXCEPT ![t] = s]
    BY <1>8
  <2> HIDE DEF s
  <2>3. SessionOK(s) /\ LogOK(l) /\ s.batch = <<>>
    BY <1>3, <1>8, <2>1 DEF LocalInv, SessionOK, none
  <2>4. s.receipts \subseteq promised' \cup ToSet(l.files)
    BY <1>1, <1>3, <2>1 DEF LocalInv, ToldInv
  <2>5. \A o \in Objects : a[o] = "failed" => o \notin ToSet(l.files)
    BY <1>3, <1>4, <1>7 DEF LocalInv, ToldInv, S
  <2>6. \A o \in admissions \ admissions' : o \in Pending(p) /\ o \notin ToSet(l.files)
    BY <1>1, <1>4, <1>5 DEF S
  <2>7. Rests(t, l, m, s, a)
    BY <1>1, <1>3, <1>7, <1>8, <2>1, <2>2, <2>3, <2>4, <2>5, <2>6, Facts
       DEF Rests, Resting, p, l
  <2> QED BY <2>7, RestsStep
<1>9. ASSUME NEW f \in {"torn", p.obj}, Place(t, f), NEW stopped \in BOOLEAN,
             session' = [session EXCEPT ![t] =
                           Lost([dispatched(p.tail, p.obj) EXCEPT !.stopped = stopped])]
      PROVE  SessionInv'
  <2> DEFINE x == p.tail
             n == Append(x.names, p.obj)
             e == [dispatched(x, p.obj) EXCEPT !.stopped = stopped]
             m == Overwritten(media[t], Len(l.files) + Len(x.names), f)
  <2>1. n \in Seq(Files) /\ Len(n) = Len(x.names) + 1 /\ Len(x.names) \in Nat /\ x.synced \in Nat
    BY <1>6 DEF Evidence
  <2>2. e = [[x EXCEPT !.names = n] EXCEPT !.stopped = stopped]
    BY DEF dispatched
  <2>3. f \in Files
    BY <1>6 DEF Files
  <2>4. media' = [media EXCEPT ![t] = m]
    BY <1>9 DEF Place, Committed, l, p
  <2>5. MediaOK(m) /\ Kept(l, m)
    BY <1>1, <1>3, <2>3, PlaceOK DEF LocalInv
  <2>6. session' = [session EXCEPT ![t] = Lost(e)]
    BY <1>9
  <2> HIDE DEF n, x, e, m, Lost
  <2>7. e \in Evidence /\ e.names = n /\ e.synced = x.synced
    BY <1>6, <2>1, <2>2 DEF Evidence, x
  <2>8. e.synced <= Len(e.names)
    BY <1>6, <2>1, <2>7 DEF x
  <2> QED BY <1>8, <2>4, <2>5, <2>6, <2>7, <2>8
<1>10. CASE media' = media /\ session' = [session EXCEPT ![t] = Lost(p.tail)]
  <2>1. MediaOK(media[t]) /\ Kept(l, media[t]) /\ media' = [media EXCEPT ![t] = media[t]]
    BY <1>3, <1>10 DEF LocalInv, TapeInv
  <2> HIDE DEF Lost
  <2> QED BY <1>6, <1>8, <1>10, <2>1
<1> QED BY <1>2, <1>9, <1>10

(* The object joins the batch, and the session waits for a barrier or goes  *)
(* on.                                                                      *)
LEMMA Joins ==
    ASSUME SessionInv, NEW t \in Tapes, session[t].pc = "write",
           Place(t, session[t].obj), UNCHANGED <<log, catalog, admissions, fence, unread>>,
           timers' \in [Tapes -> SUBSET Timers], NEW a \in [Objects -> Answers],
           told' = [told EXCEPT ![t] = a], promised' = promised,
           \A o \in Objects : a[o] = told[t][o] \/ (o = session[t].obj /\ a[o] = "written"),
           NEW s \in Sessions, session' = [session EXCEPT ![t] = s],
           s.batch = Append(session[t].batch, session[t].obj),
           s.tail.names = Append(session[t].tail.names, session[t].obj),
           s.tail.synced = session[t].tail.synced,
           s.receipts = session[t].receipts, s.poisoned = session[t].poisoned,
           \/ s.pc = "sync" /\ s.trigger = "append" /\ s.obj = session[t].obj
           \/ s.pc = "ready" /\ s.obj = "none" /\ Len(s.batch) < MaxBatch
    PROVE  SessionInv'
<1> DEFINE p == session[t]
           l == log[t]
           x == p.obj
           m == Overwritten(media[t], Len(l.files) + Len(p.tail.names), x)
<1>1. /\ LocalInv(l, media[t], p, told[t], catalog, promised) /\ p \in Sessions
      /\ "none" \notin Objects /\ MaxBatch \in Nat /\ media' = [media EXCEPT ![t] = m]
      /\ log' = [log EXCEPT ![t] = l]
  BY Facts DEF Place, Committed
<1>2. /\ x \in Objects /\ x \notin ToSet(l.files) /\ x \notin ToSet(p.batch)
      /\ ToSet(p.batch) \cap ToSet(l.files) = {} /\ Len(p.batch) < MaxBatch
      /\ p.tail.names = p.batch
  BY <1>1 DEF LocalInv, StageInv, OwnInv, TapeInv, Appending
<1>3. MediaOK(m) /\ Kept(l, m) /\ Starts(m, l.files \o s.batch)
  <2>1. /\ LogOK(l) /\ MediaOK(media[t]) /\ TapeInv(l, media[t], p) /\ p.pc = "write"
        /\ x \in Files /\ s.batch = Append(p.batch, x)
    BY <1>1, <1>2 DEF LocalInv, Files
  <2> HIDE DEF p, l, x
  <2> DEFINE k == media[t]
  <2>2. /\ MediaOK(Overwritten(k, Len(l.files) + Len(p.tail.names), x))
        /\ Kept(l, Overwritten(k, Len(l.files) + Len(p.tail.names), x))
        /\ Starts(Overwritten(k, Len(l.files) + Len(p.tail.names), x), l.files \o Append(p.batch, x))
    <3> HIDE DEF k
    <3> QED BY <1>1, <2>1, PlaceOK DEF k
  <2> QED BY <2>1, <2>2
<1> HIDE DEF p, l, m, x
<1>4. p.batch \in Seq(Objects) /\ s.batch = Append(p.batch, x)
  BY <1>1 DEF Sessions, p, x
<1>5. ToSet(s.batch) = ToSet(p.batch) \cup {x}
  BY <1>2, <1>4, ToSetAppend
<1>6. Pending(s) = ToSet(p.batch) \cup {x} /\ Pending(p) = Pending(s)
  BY <1>1, <1>2, <1>5 DEF Pending, p, x
<1>7. LocalInv(l, m, s, a, catalog', promised')
  <2>1. LogOK(l)
    BY <1>1 DEF LocalInv
  <2>2. SessionOK(s)
    <3>1. /\ p.tail.names \in Seq(Files) /\ p.tail.synced \in Nat /\ x \in Files
          /\ p.tail.synced <= Len(p.tail.names) /\ s.tail.names = Append(p.tail.names, x)
          /\ s.tail.synced = p.tail.synced
      BY <1>1, <1>2 DEF LocalInv, SessionOK, Sessions, Evidence, Files, p, x
    <3>2. Len(s.tail.names) = Len(p.tail.names) + 1 /\ Len(p.tail.names) \in Nat
      BY <3>1
    <3> QED BY <3>1, <3>2 DEF SessionOK
  <2>3. StageInv(s)
    <3> DEFINE b == p.batch
               c == s.batch
    <3>1. /\ Len(c) = Len(b) + 1 /\ Len(b) \in Nat /\ c[Len(b) + 1] = x
          /\ \A i \in 1..Len(b) : c[i] = b[i]
      BY <1>2, <1>4
    <3>2. /\ \A i, j \in 1..Len(b) : i # j => b[i] # b[j]
          /\ \A i \in 1..Len(b) : b[i] # x
      <4>1. \A i \in 1..Len(b) : b[i] \in ToSet(b)
        BY <1>4, ToSetElements
      <4> QED BY <1>1, <1>2, <4>1 DEF LocalInv, StageInv
    <3> HIDE DEF b, c
    <3>3. \A i, j \in 1..Len(c) : i # j => c[i] # c[j]
      <4> SUFFICES ASSUME NEW i \in 1..Len(c), NEW j \in 1..Len(c), i # j
                   PROVE  c[i] # c[j]
        OBVIOUS
      <4>1. (i \in 1..Len(b) \/ i = Len(b) + 1) /\ (j \in 1..Len(b) \/ j = Len(b) + 1)
        BY <3>1
      <4> QED BY <3>1, <3>2, <4>1
    <3>4. Len(c) <= MaxBatch
      BY <1>1, <1>2, <3>1 DEF b
    <3>5. x \in ToSet(c) /\ x \in Objects
      BY <1>2, <1>5 DEF c
    <3> QED BY <3>3, <3>4, <3>5 DEF StageInv, Appending, Committing, c, x, p
  <2>4. TapeInv(l, m, s)
    BY <1>2, <1>3, <1>4 DEF TapeInv, Appending, p, x
  <2>5. OwnInv(l, s, catalog')
    BY <1>1, <1>2, <1>5 DEF LocalInv, OwnInv, Appending, Committing, p
  <2>6. ToldInv(l, s, a, promised')
    <3>1. ToldInv(l, p, told[t], promised)
      BY <1>1 DEF LocalInv
    <3>2. s.receipts \subseteq promised' \cup ToSet(l.files)
      BY <3>1 DEF ToldInv, p
    <3>3. ASSUME NEW o \in Objects, a[o] = "failed" PROVE o \notin ToSet(l.files) \cup Pending(s)
      BY <1>6, <3>1, <3>3 DEF ToldInv
    <3>4. ASSUME NEW o \in Objects, a[o] = "written", l.open, ~s.poisoned
          PROVE  o \in ToSet(s.batch)  \cup ToSet(l.files)
      <4>1. CASE o = x
        BY <1>5, <4>1
      <4>2. CASE o # x
        BY <1>5, <3>1, <3>4, <4>2 DEF ToldInv, p, x
      <4> QED BY <4>1, <4>2
    <3> QED BY <3>2, <3>3, <3>4 DEF ToldInv
  <2> QED BY <1>3, <2>1, <2>2, <2>3, <2>4, <2>5, <2>6 DEF LocalInv
<1>8. Moves(t, l, m, s, a)
  BY <1>1, <1>6, <1>7, Facts DEF Moves, p, l
<1> QED BY <1>8, Step

LEMMA WriteStep ==
    ASSUME SessionInv, NEW t \in Tapes, Write(t) PROVE SessionInv'
<1> DEFINE p == session[t]
           x == p.obj
           B == Append(p.batch, x)
           N == IF p.batch = <<>> THEN p.number + 1 ELSE p.number
           E == dispatched(p.tail, x)
           j == [p EXCEPT !.batch = B, !.number = N, !.tail = E]
           S == {x}
<1>1. /\ p.pc = "write" /\ Place(t, p.obj)
      /\ UNCHANGED <<log, catalog, admissions, fence, unread>>
      /\ \/ /\ timers' = [timers EXCEPT ![t] = arm_checkpoint_timer(t)]
            /\ \/ /\ session' = [session EXCEPT ![t] = [j EXCEPT !.pc = "sync", !.trigger = "append"]]
                  /\ told' = told /\ promised' = promised
               \/ /\ ~should_checkpoint(B)
                  /\ session' = [session EXCEPT ![t] = [j EXCEPT !.pc = "ready", !.obj = "none"]]
                  /\ told' = Answered(t, S, "written") /\ promised' = promised
         \/ /\ session' = [session EXCEPT ![t] = [j EXCEPT !.pc = "sync", !.trigger = "append"]]
            /\ told' = told /\ promised' = promised /\ timers' = timers
  <2>1. p \in Sessions
    BY Facts
  <2>2. j.batch = B
    BY <2>1 DEF Sessions
  <2> QED BY <2>2 DEF Write, At, Become, Answer, Fault, Quiet
<1>2. /\ LocalInv(log[t], media[t], p, told[t], catalog, promised) /\ p \in Sessions
      /\ told[t] \in [Objects -> Answers] /\ told = [told EXCEPT ![t] = told[t]]
      /\ timers \in [Tapes -> SUBSET Timers] /\ MaxBatch \in Nat
  BY Facts
<1>3. timers' \in [Tapes -> SUBSET Timers]
  <2>1. p.number + 1 \in Nat
    BY <1>2 DEF Sessions
  <2>2. arm_checkpoint_timer(t) \in SUBSET Timers
    BY <1>2, <2>1 DEF arm_checkpoint_timer, Timers
  <2> QED BY <1>1, <1>2, <2>2
<1>4. x \in Objects /\ x \in Files
  BY <1>1, <1>2 DEF LocalInv, StageInv, Files
<1>5. B \in Seq(Objects) /\ N \in Nat
  BY <1>2, <1>4 DEF Sessions
<1>6. E \in Evidence /\ E.names = Append(p.tail.names, x) /\ E.synced = p.tail.synced
  <2> DEFINE n == Append(p.tail.names, x)
             e == p.tail
  <2>1. e \in Evidence /\ n \in Seq(Files)
    BY <1>2, <1>4 DEF Sessions, Evidence
  <2>2. E = [e EXCEPT !.names = n]
    BY DEF dispatched
  <2> HIDE DEF n, e, E
  <2>3. E \in Evidence /\ E.names = n /\ E.synced = e.synced
    BY <2>1, <2>2 DEF Evidence
  <2> QED BY <2>3 DEF n, e
<1> HIDE DEF p, B, N, E, S, x
<1>7. CASE /\ session' = [session EXCEPT ![t] = [j EXCEPT !.pc = "sync", !.trigger = "append"]]
           /\ told' = told /\ promised' = promised
  <2> DEFINE s == [j EXCEPT !.pc = "sync", !.trigger = "append"]
  <2>1. /\ s \in Sessions /\ s.pc = "sync" /\ s.obj = p.obj /\ s.batch = B /\ s.tail = E
        /\ s.receipts = p.receipts /\ s.poisoned = p.poisoned /\ s.trigger = "append"
    BY <1>2, <1>5, <1>6 DEF Sessions, Appending, Committing
  <2>2. session' = [session EXCEPT ![t] = s]
    BY <1>7
  <2> HIDE DEF s, j
  <2>3. \A o \in Objects : told[t][o] = told[t][o] \/ (o = session[t].obj /\ told[t][o] = "written")
    OBVIOUS
  <2> QED BY <1>1, <1>2, <1>3, <1>6, <1>7, <2>1, <2>2, <2>3, Joins DEF p, B, x
<1>8. CASE /\ ~should_checkpoint(B)
           /\ session' = [session EXCEPT ![t] = [j EXCEPT !.pc = "ready", !.obj = "none"]]
           /\ told' = Answered(t, S, "written") /\ promised' = promised
  <2> DEFINE s == [j EXCEPT !.pc = "ready", !.obj = "none"]
  <2>1. /\ s \in Sessions /\ s.pc = "ready" /\ s.obj = "none" /\ s.batch = B /\ s.tail = E
        /\ s.receipts = p.receipts /\ s.poisoned = p.poisoned
    BY <1>2, <1>5, <1>6 DEF Sessions, Appending, Committing
  <2>2. session' = [session EXCEPT ![t] = s]
    BY <1>8
  <2>3. Len(B) < MaxBatch
    BY <1>2, <1>5, <1>8 DEF should_checkpoint
  <2>4. PICK a \in [Objects -> Answers] :
           /\ told' = [told EXCEPT ![t] = a]
           /\ \A o \in Objects : a[o] = IF o \in S THEN "written" ELSE told[t][o]
    BY <1>8, AnsweredOK DEF Answers
  <2>5. \A o \in Objects : a[o] = told[t][o] \/ (o = session[t].obj /\ a[o] = "written")
    BY <2>4 DEF S, x, p
  <2> HIDE DEF s, j
  <2> QED BY <1>1, <1>3, <1>6, <1>8, <2>1, <2>2, <2>3, <2>4, <2>5, Joins DEF p, B, x
<1> QED BY <1>1, <1>7, <1>8

(* The session stays ready, or goes on to a barrier for its batch, and may  *)
(* answer for objects that it has in its batch or that are committed.       *)
LEMMA ReadyStep ==
    ASSUME SessionInv, NEW t \in Tapes, session[t].pc = "ready", NEW s \in Sessions,
           session' = [session EXCEPT ![t] = s],
           UNCHANGED <<log, media, catalog, admissions, fence, unread>>,
           timers' \in [Tapes -> SUBSET Timers], NEW a \in [Objects -> Answers],
           told' = [told EXCEPT ![t] = a], promised \subseteq promised',
           promised' \subseteq catalog \cup promised \cup ObjectsOf(log[t].files),
           \A o \in Objects : \/ a[o] = told[t][o]
                              \/ a[o] = "written" /\ o \in ToSet(session[t].batch)
                              \/ a[o] \in {"checkpointed", "busy"},
           s.pc = "ready" \/ (s.pc = "sync" /\ s.trigger # "append"),
           s.obj = "none", s.batch = session[t].batch, s.tail = session[t].tail,
           s.receipts \subseteq session[t].receipts, s.poisoned = session[t].poisoned
    PROVE  SessionInv'
<1> DEFINE p == session[t]
           l == log[t]
           m == media[t]
<1>1. /\ LocalInv(l, m, p, told[t], catalog, promised)
      /\ "none" \notin Objects /\ MaxBatch \in Nat /\ p \in Sessions
  BY Facts
<1>2. p.pc = "ready" /\ p.obj = "none"
  BY <1>1 DEF LocalInv, StageInv, Appending, Committing
<1>3. Pending(s) = Pending(p) /\ s.batch = p.batch
  BY <1>2 DEF Pending
<1>4. s.tail = p.tail /\ s.poisoned = p.poisoned /\ s.receipts \subseteq p.receipts
  OBVIOUS
<1> HIDE DEF p, l, m
<1>5. LocalInv(l, m, s, a, catalog', promised')
  <2>1. SessionOK(s) /\ LogOK(l) /\ MediaOK(m)
    BY <1>1, <1>4 DEF LocalInv, SessionOK
  <2>2. StageInv(s)
    BY <1>1, <1>2, <1>3 DEF LocalInv, StageInv, Appending, Committing
  <2>3. TapeInv(l, m, s)
    BY <1>1, <1>2, <1>3, <1>4 DEF LocalInv, TapeInv, Appending
  <2>4. OwnInv(l, s, catalog')
    BY <1>1, <1>2, <1>3 DEF LocalInv, OwnInv, Appending, Committing
  <2>5. ToldInv(l, s, a, promised')
    <3>1. ToldInv(l, p, told[t], promised)
      BY <1>1 DEF LocalInv
    <3>2. s.receipts \subseteq promised' \cup ToSet(l.files)
      BY <1>4, <3>1 DEF ToldInv
    <3>3. ASSUME NEW o \in Objects, a[o] = "failed" PROVE o \notin ToSet(l.files) \cup Pending(s)
      BY <1>3, <3>1, <3>3 DEF ToldInv
    <3>4. ASSUME NEW o \in Objects, a[o] = "written", l.open, ~s.poisoned
          PROVE  o \in ToSet(s.batch) \cup ToSet(l.files)
      <4>1. told[t][o] = "written" \/ o \in ToSet(p.batch)
        BY <3>4 DEF p
      <4> QED BY <1>2, <1>3, <1>4, <3>1, <3>4, <4>1 DEF ToldInv
    <3> QED BY <3>2, <3>3, <3>4 DEF ToldInv
  <2> QED BY <2>1, <2>2, <2>3, <2>4, <2>5 DEF LocalInv
<1>6. Moves(t, l, m, s, a)
  BY <1>2, <1>3, <1>5, Facts DEF Moves, p, l, m
<1> QED BY <1>6, Step

(* An object that nobody has pending is claimed. *)
Reserves(t, x, s, a) ==
    /\ session[t].pc = "ready" /\ x \notin ToSet(session[t].batch) /\ x \notin admissions
    /\ s \in Sessions /\ session' = [session EXCEPT ![t] = s]
    /\ UNCHANGED <<log, media, catalog, timers, fence, promised, unread>>
    /\ admissions' = admissions \cup {x}
    /\ a \in [Objects -> Answers] /\ told' = [told EXCEPT ![t] = a]
    /\ \A o \in Objects : a[o] = IF o = x THEN "none" ELSE told[t][o]
    /\ s.pc = "admitted" /\ s.obj = x /\ s.batch = session[t].batch /\ s.tail = session[t].tail
    /\ s.receipts = session[t].receipts /\ s.poisoned = session[t].poisoned

LEMMA ReserveClaims ==
    ASSUME SessionInv, NEW t \in Tapes, NEW x \in Objects, NEW s, NEW a, Reserves(t, x, s, a)
    PROVE  SessionInv'
<1> USE DEF Reserves
<1> DEFINE p == session[t]
           l == log[t]
           m == media[t]
<1>1. /\ LocalInv(l, m, p, told[t], catalog, promised)
      /\ "none" \notin Objects /\ MaxBatch \in Nat /\ p \in Sessions
      /\ log' = [log EXCEPT ![t] = l] /\ media' = [media EXCEPT ![t] = m]
      /\ Pending(p) \subseteq admissions /\ SessionTypes /\ ClaimInv
  BY Facts DEF SessionInv
<1>2. p.pc = "ready" /\ p.obj = "none"
  BY <1>1 DEF LocalInv, StageInv, Appending, Committing
<1>3. Pending(p) = ToSet(p.batch) /\ Pending(s) = ToSet(p.batch) \cup {x} /\ s.batch = p.batch
  BY <1>1, <1>2 DEF Pending
<1>4. s.tail = p.tail /\ s.poisoned = p.poisoned /\ s.receipts = p.receipts
  OBVIOUS
<1>5. LocalInv(l, m, s, a, catalog', promised')
  <2> HIDE DEF p, l, m
  <2>1. SessionOK(s) /\ LogOK(l) /\ MediaOK(m)
    BY <1>1, <1>4 DEF LocalInv, SessionOK
  <2>2. StageInv(s)
    BY <1>1, <1>2, <1>3 DEF LocalInv, StageInv, Appending, Committing, p
  <2>3. TapeInv(l, m, s)
    BY <1>1, <1>2, <1>3, <1>4 DEF LocalInv, TapeInv, Appending
  <2>4. OwnInv(l, s, catalog')
    BY <1>1, <1>2, <1>3 DEF LocalInv, OwnInv, Appending, Committing
  <2>5. ToldInv(l, s, a, promised')
    <3>1. ToldInv(l, p, told[t], promised)
      BY <1>1 DEF LocalInv
    <3>2. s.receipts \subseteq promised' \cup ToSet(l.files)
      BY <1>4, <3>1 DEF ToldInv
    <3>3. ASSUME NEW o \in Objects, a[o] = "failed" PROVE o \notin ToSet(l.files) \cup Pending(s)
      BY <1>3, <3>1, <3>3 DEF ToldInv
    <3>4. ASSUME NEW o \in Objects, a[o] = "written", l.open, ~s.poisoned
          PROVE  o \in ToSet(s.batch) \cup ToSet(l.files)
      BY <1>2, <1>3, <1>4, <3>1, <3>4 DEF ToldInv
    <3> QED BY <3>2, <3>3, <3>4 DEF ToldInv
  <2> QED BY <2>1, <2>2, <2>3, <2>4, <2>5 DEF LocalInv
<1>6. ClaimInv'
  <2>1. \A u \in Tapes \ {t} : /\ Pending(session[u]) \subseteq admissions'
                                /\ Pending(s) \cap Pending(session[u]) = {}
    BY <1>1, <1>3 DEF ClaimInv
  <2>2. \A u \in Tapes \ unread : ObjectsOf(log[u].files) \subseteq catalog' \cup admissions'
    BY <1>1 DEF ClaimInv
  <2>3. ASSUME NEW u \in Tapes \ (unread \cup {t}), NEW o \in Pending(s) \cap ToSet(log[u].files)
        PROVE  s.pc = "admitted" /\ o = s.obj /\ o \in catalog'
    <3>1. o \notin Pending(p)
      BY <1>1, <1>2 DEF ClaimInv
    <3>2. o = x
      BY <1>3, <3>1
    <3>3. x \in catalog
      BY <1>1, <3>2 DEF ClaimInv, ObjectsOf
    <3> QED BY <3>2, <3>3
  <2>4. t \notin unread =>
          /\ \A u \in Tapes \ {t} : \A o \in Pending(session[u]) \cap ToSet(l.files) :
                session[u].pc = "admitted" /\ o = session[u].obj /\ o \in catalog'
          /\ \A u \in Tapes \ (unread \cup {t}) :
                ObjectsOf(l.files) \cap ToSet(log[u].files) = {}
    BY <1>1 DEF ClaimInv
  <2>5. Pending(s) \subseteq admissions'
    BY <1>1, <1>3
  <2>6. Claims(t, l, s)
    BY <1>1, <2>1, <2>2, <2>3, <2>4, <2>5 DEF Claims
  <2> QED BY <1>1, <2>6, ClaimsStep
<1>7. /\ timers' \in [Tapes -> SUBSET Timers] /\ fence' \in SUBSET Tapes
      /\ catalog' \cup promised' \subseteq Objects /\ admissions' \in SUBSET Objects
  BY Facts
<1>8. Local(t, l, m, s, a)
  BY <1>1, <1>5, <1>7 DEF Local
<1> QED BY <1>6, <1>8, Assemble

LEMMA ReserveStep ==
    ASSUME SessionInv, NEW t \in Tapes, NEW x \in Objects, reserve(t, x) PROVE SessionInv'
<1> DEFINE p == session[t]
           S == {x}
           w == [p EXCEPT !.waiting = 0]
           v == [w EXCEPT !.pc = "admitted", !.obj = x]
<1>1. p \in Sessions /\ p.pc = "ready" /\ LocalInv(log[t], media[t], p, told[t], catalog, promised)
  BY Facts DEF reserve, At
<1>2. p.obj = "none"
  BY <1>1 DEF LocalInv, StageInv, Appending, Committing
<1>3. w.batch = p.batch
  BY <1>1 DEF Sessions
<1>4. /\ UNCHANGED <<log, media, catalog, timers, fence, unread>>
      /\ promised' = promised
      /\ \/ /\ x \in ToSet(p.batch) /\ session' = [session EXCEPT ![t] = w]
            /\ told' = Answered(t, S, "written") /\ admissions' = admissions
         \/ /\ session' = [session EXCEPT ![t] = w]
            /\ told' = Answered(t, S, "busy") /\ admissions' = admissions
         \/ /\ x \notin ToSet(p.batch) /\ x \notin admissions
            /\ session' = [session EXCEPT ![t] = v]
            /\ admissions' = admissions \cup {x} /\ told' = Answered(t, S, "none")
  BY <1>3 DEF reserve, Event, Become, Answer, awaiting_checkpoint
<1>5. timers' \in [Tapes -> SUBSET Timers]
  BY <1>4, Facts
<1> HIDE DEF p, S
<1>6. /\ w \in Sessions /\ w.pc = "ready" /\ w.obj = "none" /\ w.batch = p.batch /\ w.tail = p.tail
      /\ w.receipts = p.receipts /\ w.poisoned = p.poisoned
  BY <1>1, <1>2 DEF Sessions
<1>7. /\ v \in Sessions /\ v.pc = "admitted" /\ v.obj = x /\ v.batch = p.batch /\ v.tail = p.tail
      /\ v.receipts = p.receipts /\ v.poisoned = p.poisoned
  BY <1>1, <1>2 DEF Sessions, Appending
<1> HIDE DEF w, v
<1>8. CASE /\ x \in ToSet(p.batch) /\ session' = [session EXCEPT ![t] = w]
           /\ told' = Answered(t, S, "written") /\ admissions' = admissions
  <2>1. PICK a \in [Objects -> Answers] :
           /\ told' = [told EXCEPT ![t] = a]
           /\ \A o \in Objects : a[o] = IF o \in S THEN "written" ELSE told[t][o]
    BY <1>8, AnsweredOK DEF Answers
  <2>2. \A o \in Objects : a[o] = told[t][o] \/ (a[o] = "written" /\ o \in ToSet(session[t].batch))
    BY <1>8, <2>1 DEF S, p
  <2> QED BY <1>1, <1>4, <1>5, <1>6, <1>8, <2>1, <2>2, ReadyStep DEF p
<1>9. CASE /\ session' = [session EXCEPT ![t] = w]
           /\ told' = Answered(t, S, "busy") /\ admissions' = admissions
  <2>1. PICK a \in [Objects -> Answers] :
           /\ told' = [told EXCEPT ![t] = a]
           /\ \A o \in Objects : a[o] = IF o \in S THEN "busy" ELSE told[t][o]
    BY <1>9, AnsweredOK DEF Answers
  <2>2. \A o \in Objects : a[o] = told[t][o] \/ a[o] \in {"checkpointed", "busy"}
    BY <2>1
  <2> QED BY <1>1, <1>4, <1>5, <1>6, <1>9, <2>1, <2>2, ReadyStep DEF p
<1>10. CASE /\ x \notin ToSet(p.batch) /\ x \notin admissions
            /\ session' = [session EXCEPT ![t] = v]
            /\ admissions' = admissions \cup {x} /\ told' = Answered(t, S, "none")
  <2>1. PICK a \in [Objects -> Answers] :
           /\ told' = [told EXCEPT ![t] = a]
           /\ \A o \in Objects : a[o] = IF o \in S THEN "none" ELSE told[t][o]
    BY <1>10, AnsweredOK DEF Answers
  <2>2. \A o \in Objects : a[o] = IF o = x THEN "none" ELSE told[t][o]
    BY <2>1 DEF S
  <2>3. /\ session[t].pc = "ready" /\ x \notin ToSet(session[t].batch) /\ x \notin admissions
        /\ v.batch = session[t].batch /\ v.tail = session[t].tail
        /\ v.receipts = session[t].receipts /\ v.poisoned = session[t].poisoned
    BY <1>1, <1>7, <1>10 DEF p
  <2>4. /\ UNCHANGED <<log, media, catalog, timers, fence, promised, unread>>
        /\ session' = [session EXCEPT ![t] = v] /\ admissions' = admissions \cup {x}
    BY <1>4, <1>10
  <2>5. Reserves(t, x, v, a)
    BY <1>7, <2>1, <2>2, <2>3, <2>4 DEF Reserves
  <2> QED BY <2>5, ReserveClaims
<1> QED BY <1>4, <1>8, <1>9, <1>10

LEMMA CheckpointStep ==
    ASSUME SessionInv, NEW t \in Tapes, handle_checkpoint(t) PROVE SessionInv'
<1> DEFINE p == session[t]
           none == {}
           w == [p EXCEPT !.receipts = none]
           R == p.receipts
<1>1. p \in Sessions /\ p.pc = "ready" /\ LocalInv(log[t], media[t], p, told[t], catalog, promised)
      /\ told[t] \in [Objects -> Answers] /\ told = [told EXCEPT ![t] = told[t]]
  BY Facts DEF handle_checkpoint, At
<1>2. p.obj = "none" /\ R \subseteq Objects /\ R \subseteq promised \cup ToSet(log[t].files)
      /\ none \in SUBSET Objects
  BY <1>1 DEF LocalInv, StageInv, ToldInv, Appending, Committing, Sessions
<1>3. /\ UNCHANGED <<log, media, catalog, admissions, timers, fence, unread>>
      /\ \/ /\ session' = [session EXCEPT ![t] = w]
            /\ told' = Answered(t, R, "checkpointed") /\ promised' = promised \cup R
         \/ \E g \in {"explicit", "lost"} :
               /\ session' = [session EXCEPT ![t] = [p EXCEPT !.pc = "sync", !.trigger = g]]
               /\ told' = told /\ promised' = promised
  BY DEF handle_checkpoint, Event, Become, Answer, Barrier
<1>4. timers' \in [Tapes -> SUBSET Timers]
  BY <1>3, Facts
<1>5. CASE /\ session' = [session EXCEPT ![t] = w]
           /\ told' = Answered(t, R, "checkpointed") /\ promised' = promised \cup R
  <2> HIDE DEF p, R, none
  <2>1. /\ w \in Sessions /\ w.pc = "ready" /\ w.obj = "none" /\ w.batch = p.batch /\ w.tail = p.tail
        /\ w.receipts = none /\ w.poisoned = p.poisoned
    BY <1>1, <1>2 DEF Sessions
  <2>2. PICK a \in [Objects -> Answers] :
           /\ told' = [told EXCEPT ![t] = a]
           /\ \A o \in Objects : a[o] = IF o \in R THEN "checkpointed" ELSE told[t][o]
    BY <1>5, AnsweredOK DEF Answers
  <2>3. \A o \in Objects : a[o] = told[t][o] \/ a[o] \in {"checkpointed", "busy"}
    BY <2>2
  <2>4. promised \subseteq promised'
        /\ promised' \subseteq catalog \cup promised \cup ObjectsOf(log[t].files)
    BY <1>2, <1>5 DEF ObjectsOf
  <2> HIDE DEF w
  <2>5. w.receipts \subseteq session[t].receipts
    BY <2>1 DEF none
  <2> QED BY <1>1, <1>3, <1>4, <1>5, <2>1, <2>2, <2>3, <2>4, <2>5, ReadyStep DEF p
<1>6. ASSUME NEW g \in {"explicit", "lost"},
             session' = [session EXCEPT ![t] = [p EXCEPT !.pc = "sync", !.trigger = g]],
             told' = told, promised' = promised
      PROVE  SessionInv'
  <2> DEFINE s == [p EXCEPT !.pc = "sync", !.trigger = g]
  <2> HIDE DEF p
  <2>1. /\ s \in Sessions /\ s.pc = "sync" /\ s.obj = "none" /\ s.batch = p.batch /\ s.tail = p.tail
        /\ s.receipts = p.receipts /\ s.poisoned = p.poisoned /\ s.trigger = g
    BY <1>1, <1>2 DEF Sessions, Appending
  <2>2. session' = [session EXCEPT ![t] = s] /\ g # "append"
    BY <1>6
  <2> HIDE DEF s
  <2> QED BY <1>1, <1>3, <1>4, <1>6, <2>1, <2>2, ReadyStep DEF p
<1> QED BY <1>3, <1>5, <1>6

LEMMA CloseStep ==
    ASSUME SessionInv, NEW t \in Tapes, handle_close(t) PROVE SessionInv'
<1> DEFINE p == session[t]
           l == log[t]
           m == media[t]
           R == p.receipts
           s == [p EXCEPT !.pc = "finish", !.reason = "CleanClose"]
           w == [p EXCEPT !.pc = "sync", !.trigger = "close"]
<1>1. /\ p \in Sessions /\ p.pc = "ready" /\ LocalInv(l, m, p, told[t], catalog, promised)
      /\ told[t] \in [Objects -> Answers] /\ told = [told EXCEPT ![t] = told[t]]
  BY Facts DEF handle_close, At
<1>2. p.obj = "none" /\ R \subseteq Objects /\ R \subseteq promised \cup ToSet(l.files)
  BY <1>1 DEF LocalInv, StageInv, ToldInv, Appending, Committing, Sessions
<1>3. /\ UNCHANGED <<log, media, catalog, admissions, timers, fence, unread>>
      /\ \/ /\ session' = [session EXCEPT ![t] = s] /\ p.batch = <<>>
            /\ told' = Answered(t, R, "checkpointed") /\ promised' = promised \cup R
         \/ /\ session' = [session EXCEPT ![t] = w]
            /\ told' = told /\ promised' = promised
  BY DEF handle_close, Event, Become, Answer, Barrier
<1>4. timers' \in [Tapes -> SUBSET Timers]
  BY <1>3, Facts
<1>5. CASE /\ session' = [session EXCEPT ![t] = s] /\ p.batch = <<>>
           /\ told' = Answered(t, R, "checkpointed") /\ promised' = promised \cup R
  <2> HIDE DEF p, R, l, m
  <2>1. /\ s \in Sessions /\ s.pc = "finish" /\ s.obj = "none" /\ s.batch = <<>> /\ s.tail = p.tail
        /\ s.receipts = p.receipts /\ s.poisoned = p.poisoned
    BY <1>1, <1>2, <1>5 DEF Sessions
  <2>2. PICK a \in [Objects -> Answers] :
           /\ told' = [told EXCEPT ![t] = a]
           /\ \A o \in Objects : a[o] = IF o \in R THEN "checkpointed" ELSE told[t][o]
    BY <1>5, AnsweredOK DEF Answers
  <2>3. promised \subseteq promised'
        /\ promised' \subseteq catalog \cup promised \cup ObjectsOf(l.files)
    BY <1>2, <1>5 DEF ObjectsOf
  <2> HIDE DEF s
  <2>4. SessionOK(s) /\ LogOK(l) /\ MediaOK(m) /\ Kept(l, m)
    BY <1>1, <2>1 DEF LocalInv, SessionOK, TapeInv
  <2>5. ASSUME NEW o \in Objects
        PROVE  /\ a[o] = "failed" => o \notin ToSet(l.files)
               /\ a[o] = "written" /\ l.open /\ ~s.poisoned => o \in ToSet(l.files)
    <3>1. ToSet(p.batch) = {}
      BY <1>5, ToSetEmpty
    <3>2. (a[o] = "failed" => told[t][o] = "failed") /\ (a[o] = "written" => told[t][o] = "written")
      BY <2>2
    <3> QED BY <1>1, <2>1, <3>1, <3>2 DEF LocalInv, ToldInv
  <2>6. s.receipts \subseteq promised' \cup ToSet(l.files)
    BY <1>2, <1>5, <2>1 DEF R
  <2>7. Rests(t, l, m, s, a)
    BY <1>3, <1>4, <1>5, <2>1, <2>2, <2>3, <2>4, <2>5, <2>6, Facts DEF Rests, Resting, l, m
  <2> QED BY <2>7, RestsStep
<1>6. CASE session' = [session EXCEPT ![t] = w] /\ told' = told /\ promised' = promised
  <2> HIDE DEF p
  <2>1. /\ w \in Sessions /\ w.pc = "sync" /\ w.obj = "none" /\ w.batch = p.batch /\ w.tail = p.tail
        /\ w.receipts = p.receipts /\ w.poisoned = p.poisoned /\ w.trigger = "close"
    BY <1>1, <1>2 DEF Sessions, Appending
  <2> HIDE DEF w
  <2> QED BY <1>1, <1>3, <1>4, <1>6, <2>1, ReadyStep DEF p
<1> QED BY <1>3, <1>5, <1>6

LEMMA AbortStep ==
    ASSUME SessionInv, NEW t \in Tapes, handle_abort(t) PROVE SessionInv'
<1> DEFINE p == session[t]
           l == log[t]
           m == media[t]
           R == p.receipts
           B == ToSet(p.batch)
           none == <<>>
           c == [o \in Objects |-> IF o \in R THEN "checkpointed" ELSE told[t][o]]
           a == [o \in Objects |-> IF o \in B THEN "none" ELSE c[o]]
<1>1. /\ p \in Sessions /\ p.pc = "ready" /\ LocalInv(l, m, p, told[t], catalog, promised)
      /\ told[t] \in [Objects -> Answers] /\ none \in Seq(Objects)
      /\ told \in [Tapes -> [Objects -> Answers]]
  BY Facts DEF handle_abort, At, SessionInv, SessionTypes
<1>2. /\ p.obj = "none" /\ R \subseteq Objects /\ R \subseteq promised \cup ToSet(l.files)
      /\ B \cap ToSet(l.files) = {}
  BY <1>1 DEF LocalInv, StageInv, OwnInv, ToldInv, Appending, Committing, Sessions
<1>3. PICK r \in {"Abort", "ClientStall", "ClientDisconnected"} :
         session' = [session EXCEPT ![t] =
                       [p EXCEPT !.pc = "finish", !.batch = none, !.reason = r]]
  BY DEF handle_abort, Become
<1>4. /\ UNCHANGED <<log, media, catalog, timers, fence, unread>>
      /\ promised' = promised \cup R /\ admissions' = admissions \ B
      /\ told' = [Answered(t, R, "checkpointed") EXCEPT ![t] =
                    [o \in Objects |-> IF o \in B THEN "none" ELSE @[o]]]
  BY DEF handle_abort, Event
<1>5. told' = [told EXCEPT ![t] = a]
  <2> HIDE DEF R, B
  <2>1. Answered(t, R, "checkpointed") = [told EXCEPT ![t] = c]
    BY DEF Answered
  <2> HIDE DEF c
  <2> QED BY <1>1, <1>4, <2>1
<1>6. a \in [Objects -> Answers] /\ \A o \in Objects :
         (a[o] = "failed" => told[t][o] = "failed")
         /\ (a[o] = "written" => told[t][o] = "written" /\ o \notin B)
  BY <1>1 DEF Answers
<1>7. timers' \in [Tapes -> SUBSET Timers]
  BY <1>4, Facts
<1>8. Pending(p) = B
  BY <1>1, <1>2, Facts DEF Pending
<1> DEFINE s == [p EXCEPT !.pc = "finish", !.batch = none, !.reason = r]
<1> HIDE DEF p, R, B, l, m, a, c, none
<1>9. /\ s \in Sessions /\ s.pc = "finish" /\ s.obj = "none" /\ s.batch = none /\ s.tail = p.tail
      /\ s.receipts = p.receipts /\ s.poisoned = p.poisoned
  BY <1>1, <1>2 DEF Sessions
<1>10. session' = [session EXCEPT ![t] = s] /\ s.batch = <<>>
  BY <1>3, <1>9 DEF none
<1> HIDE DEF s
<1>11. SessionOK(s) /\ LogOK(l) /\ MediaOK(m) /\ Kept(l, m)
  BY <1>1, <1>9 DEF LocalInv, SessionOK, TapeInv
<1>12. ASSUME NEW o \in Objects
       PROVE  /\ a[o] = "failed" => o \notin ToSet(l.files)
              /\ a[o] = "written" /\ l.open /\ ~s.poisoned => o \in ToSet(l.files)
  BY <1>1, <1>6, <1>9 DEF LocalInv, ToldInv, B
<1>13. /\ promised \subseteq promised'
       /\ promised' \subseteq catalog \cup promised \cup ObjectsOf(l.files)
       /\ s.receipts \subseteq promised' \cup ToSet(l.files)
  BY <1>2, <1>4, <1>9 DEF ObjectsOf, R
<1>14. Rests(t, l, m, s, a)
  BY <1>2, <1>4, <1>5, <1>6, <1>7, <1>8, <1>9, <1>10, <1>11, <1>12, <1>13, Facts
     DEF Rests, Resting, l, m, p
<1> QED BY <1>14, RestsStep

(* A mounted drive whose audit failed gives its batch up. *)
LEMMA MountedEnds ==
    ASSUME SessionInv, NEW t \in Tapes, session[t].pc = "ready",
           Become(t, [session[t] EXCEPT !.pc = "finish", !.batch = <<>>]),
           Answer(t, ToSet(session[t].batch), "none"),
           admissions' = admissions \ ToSet(session[t].batch),
           UNCHANGED <<log, media, catalog, timers, fence, unread>>
    PROVE  SessionInv'
<1> DEFINE p == session[t]
           l == log[t]
           m == media[t]
           B == ToSet(p.batch)
           none == <<>>
           s == [p EXCEPT !.pc = "finish", !.batch = none]
<1>1. /\ p \in Sessions /\ p.pc = "ready" /\ LocalInv(l, m, p, told[t], catalog, promised)
      /\ none \in Seq(Objects)
  BY Facts
<1>2. /\ p.obj = "none" /\ p.receipts \subseteq promised \cup ToSet(l.files)
      /\ B \cap ToSet(l.files) = {}
  BY <1>1 DEF LocalInv, StageInv, OwnInv, ToldInv, Appending, Committing
<1>3. /\ session' = [session EXCEPT ![t] = s] /\ promised' = promised
      /\ told' = Answered(t, B, "none") /\ admissions' = admissions \ B
  BY DEF Become, Answer
<1>4. timers' \in [Tapes -> SUBSET Timers]
  BY Facts
<1>5. Pending(p) = B
  BY <1>2, Facts DEF Pending
<1> HIDE DEF p, B, l, m, none
<1>6. PICK a \in [Objects -> Answers] :
         /\ told' = [told EXCEPT ![t] = a]
         /\ \A o \in Objects : a[o] = IF o \in B THEN "none" ELSE told[t][o]
  BY <1>3, AnsweredOK DEF Answers
<1>7. /\ s \in Sessions /\ s.pc = "finish" /\ s.obj = "none" /\ s.batch = none /\ s.tail = p.tail
      /\ s.receipts = p.receipts /\ s.poisoned = p.poisoned
  BY <1>1, <1>2 DEF Sessions
<1> HIDE DEF s
<1>8. SessionOK(s) /\ LogOK(l) /\ MediaOK(m) /\ Kept(l, m) /\ s.batch = <<>>
  BY <1>1, <1>7 DEF LocalInv, SessionOK, TapeInv, none
<1>9. ASSUME NEW o \in Objects
      PROVE  /\ a[o] = "failed" => o \notin ToSet(l.files)
             /\ a[o] = "written" /\ l.open /\ ~s.poisoned => o \in ToSet(l.files)
  <2>1. a[o] = "failed" => told[t][o] = "failed"
    BY <1>6
  <2>2. a[o] = "written" => told[t][o] = "written" /\ o \notin B
    BY <1>6
  <2> QED BY <1>1, <1>7, <2>1, <2>2 DEF LocalInv, ToldInv, B
<1>10. s.receipts \subseteq promised' \cup ToSet(l.files)
  BY <1>2, <1>3, <1>7
<1>11. Rests(t, l, m, s, a)
  BY <1>2, <1>3, <1>4, <1>5, <1>6, <1>7, <1>8, <1>9, <1>10, Facts DEF Rests, Resting, l, m, p
<1> QED BY <1>11, RestsStep

LEMMA TimerCheckpointStep ==
    ASSUME SessionInv, NEW t \in Tapes, NEW timer, TimerCheckpoint(t, timer) PROVE SessionInv'
<1> DEFINE p == session[t]
           w == [p EXCEPT !.pc = "sync", !.trigger = "timer"]
           T == timers[t] \ {timer}
<1>1. /\ p \in Sessions /\ p.pc = "ready" /\ LocalInv(log[t], media[t], p, told[t], catalog, promised)
      /\ told[t] \in [Objects -> Answers] /\ told = [told EXCEPT ![t] = told[t]]
      /\ session = [session EXCEPT ![t] = p]
      /\ T \in SUBSET Timers /\ timers \in [Tapes -> SUBSET Timers]
  BY Facts DEF TimerCheckpoint, At
<1>2. p.obj = "none"
  BY <1>1 DEF LocalInv, StageInv, Appending, Committing
<1>3. /\ UNCHANGED <<log, media, catalog, admissions, fence, told, promised, unread>>
      /\ timers' = [timers EXCEPT ![t] = T]
      /\ session' = [session EXCEPT ![t] = w] \/ session' = session
  BY DEF TimerCheckpoint, Quiet, Barrier, Become
<1>4. timers' \in [Tapes -> SUBSET Timers]
  BY <1>1, <1>3
<1>5. CASE session' = [session EXCEPT ![t] = w]
  <2> HIDE DEF p
  <2>1. /\ w \in Sessions /\ w.pc = "sync" /\ w.obj = "none" /\ w.batch = p.batch /\ w.tail = p.tail
        /\ w.receipts = p.receipts /\ w.poisoned = p.poisoned /\ w.trigger = "timer"
    BY <1>1, <1>2 DEF Sessions, Appending
  <2> HIDE DEF w, T
  <2> QED BY <1>1, <1>3, <1>4, <1>5, <2>1, ReadyStep DEF p
<1>6. CASE session' = session
  <2>1. session' = [session EXCEPT ![t] = p]
    BY <1>1, <1>6
  <2> HIDE DEF p, w, T
  <2> QED BY <1>1, <1>2, <1>3, <1>4, <2>1, ReadyStep DEF p
<1> QED BY <1>3, <1>5, <1>6

LEMMA TimerIdleStep ==
    ASSUME SessionInv, NEW t \in Tapes, NEW timer, handle_timer_idle_close(t, timer)
    PROVE  SessionInv'
<1> DEFINE p == session[t]
           l == log[t]
           m == media[t]
           none == <<>>
           w == [p EXCEPT !.pc = "finish", !.batch = none, !.reason = "ClientStall"]
           T == timers[t] \ {timer}
<1>1. /\ p \in Sessions /\ p.pc = "ready" /\ LocalInv(l, m, p, told[t], catalog, promised)
      /\ told[t] \in [Objects -> Answers] /\ told = [told EXCEPT ![t] = told[t]]
      /\ session = [session EXCEPT ![t] = p]
      /\ T \in SUBSET Timers /\ timers \in [Tapes -> SUBSET Timers] /\ none \in Seq(Objects)
  BY Facts DEF handle_timer_idle_close, At
<1>2. p.obj = "none"
  BY <1>1 DEF LocalInv, StageInv, Appending, Committing
<1>3. /\ UNCHANGED <<log, media, catalog, admissions, fence, told, promised, unread>>
      /\ timers' = [timers EXCEPT ![t] = T]
      /\ \/ p.batch = <<>> /\ session' = [session EXCEPT ![t] = w]
         \/ session' = session
  BY DEF handle_timer_idle_close, Quiet, still_idle, Become
<1>4. timers' \in [Tapes -> SUBSET Timers]
  BY <1>1, <1>3
<1>5. CASE p.batch = <<>> /\ session' = [session EXCEPT ![t] = w]
  <2> HIDE DEF p, none, l, m, T
  <2>1. /\ w \in Sessions /\ w.pc = "finish" /\ w.obj = "none" /\ w.batch = none /\ w.tail = p.tail
        /\ w.receipts = p.receipts /\ w.poisoned = p.poisoned
    BY <1>1, <1>2 DEF Sessions
  <2> HIDE DEF w
  <2>2. SessionOK(w) /\ LogOK(l) /\ MediaOK(m) /\ Kept(l, m) /\ w.batch = <<>>
    BY <1>1, <2>1 DEF LocalInv, SessionOK, TapeInv, none
  <2>3. ASSUME NEW o \in Objects
        PROVE  /\ told[t][o] = "failed" => o \notin ToSet(l.files)
               /\ told[t][o] = "written" /\ l.open /\ ~w.poisoned => o \in ToSet(l.files)
    <3>1. ToSet(p.batch) = {}
      BY <1>5, ToSetEmpty
    <3> QED BY <1>1, <2>1, <3>1 DEF LocalInv, ToldInv
  <2>4. w.receipts \subseteq promised' \cup ToSet(l.files)
    BY <1>1, <1>3, <2>1 DEF LocalInv, ToldInv
  <2>5. Rests(t, l, m, w, told[t])
    BY <1>3, <1>4, <1>5, <2>1, <2>2, <2>3, <2>4, Facts DEF Rests, Resting, l, m
  <2> QED BY <2>5, RestsStep
<1>6. CASE session' = session
  <2>1. session' = [session EXCEPT ![t] = p]
    BY <1>1, <1>6
  <2> HIDE DEF p, w, T
  <2> QED BY <1>1, <1>2, <1>3, <1>4, <2>1, ReadyStep DEF p
<1> QED BY <1>3, <1>5, <1>6

(* The client's answers where no batch is pending. *)
LEMMA ToldResting ==
    ASSUME NEW l, NEW m, NEW p, NEW a, NEW cat, NEW prom, LocalInv(l, m, p, a, cat, prom),
           p.batch = <<>>, NEW o \in Objects
    PROVE  /\ a[o] = "failed" => o \notin ToSet(l.files)
           /\ a[o] = "written" /\ l.open /\ ~p.poisoned /\ p.pc # "closed" => o \in ToSet(l.files)
<1>1. ToSet(p.batch) = {}
  BY ToSetEmpty
<1> QED BY <1>1 DEF LocalInv, ToldInv

LEMMA FinishStep ==
    ASSUME SessionInv, NEW t \in Tapes, Finish(t) PROVE SessionInv'
<1> DEFINE p == session[t]
           l == log[t]
           m == media[t]
           r == Reason(p)
           pc == IF Clean(p) /\ log[t].due /\ ~log[t].plan THEN "closeout" ELSE "end"
           s == [p EXCEPT !.reason = r, !.after = "end", !.pc = pc]
           none == {}
<1>1. /\ p \in Sessions /\ p.pc = "finish" /\ LocalInv(l, m, p, told[t], catalog, promised)
      /\ timers \in [Tapes -> SUBSET Timers] /\ none \in SUBSET Timers
  BY Facts DEF Finish, At
<1>2. /\ UNCHANGED <<log, media, catalog, admissions, fence, told, promised, unread>>
      /\ timers' = [timers EXCEPT ![t] = none]
      /\ session' = [session EXCEPT ![t] = s]
  BY DEF Finish, Quiet, Become
<1>3. timers' \in [Tapes -> SUBSET Timers]
  BY <1>1, <1>2
<1>4. p.obj = "none" /\ p.batch = <<>>
  BY <1>1 DEF LocalInv, StageInv, Appending, Committing
<1>5. /\ pc \in {"closeout", "end"}
      /\ r \in {"ClientDisconnected", "CleanClose", "FailedAppend", "Abort", "ClientStall",
                "DriveError", "CloseoutFailed"}
  BY <1>1 DEF Reason, Sessions
<1> HIDE DEF p, l, m, r, pc, none
<1>6. /\ s \in Sessions /\ s.pc = pc /\ s.obj = "none" /\ s.batch = <<>> /\ s.tail = p.tail
      /\ s.receipts = p.receipts /\ s.poisoned = p.poisoned /\ s.after = "end"
  <2>1. /\ s \in Sessions /\ s.pc = pc /\ s.obj = p.obj /\ s.batch = p.batch /\ s.tail = p.tail
        /\ s.receipts = p.receipts /\ s.poisoned = p.poisoned /\ s.after = "end"
    <3> DEFINE v == [p EXCEPT !.reason = r]
    <3>1. /\ v \in Sessions /\ v.obj = p.obj /\ v.batch = p.batch /\ v.tail = p.tail
          /\ v.receipts = p.receipts /\ v.poisoned = p.poisoned
      BY <1>1, <1>5 DEF Sessions
    <3>2. s = [v EXCEPT !.after = "end", !.pc = pc]
      OBVIOUS
    <3> HIDE DEF v, s
    <3> QED BY <1>5, <3>1, <3>2 DEF Sessions
  <2> QED BY <1>4, <2>1
<1> HIDE DEF s
<1>7. SessionOK(s) /\ LogOK(l) /\ MediaOK(m) /\ Kept(l, m)
  BY <1>1, <1>6 DEF LocalInv, SessionOK, TapeInv
<1>8. s.receipts \subseteq promised' \cup ToSet(l.files)
  BY <1>1, <1>2, <1>6 DEF LocalInv, ToldInv
<1>9. ASSUME NEW o \in Objects
      PROVE  /\ told[t][o] = "failed" => o \notin ToSet(l.files)
             /\ told[t][o] = "written" /\ l.open /\ ~s.poisoned => o \in ToSet(l.files)
  BY <1>1, <1>4, <1>6, ToldResting
<1>10. Resting(l, m, s, catalog')
  BY <1>5, <1>6 DEF Resting
<1>11. Rests(t, l, m, s, told[t])
  BY <1>2, <1>3, <1>6, <1>7, <1>8, <1>9, <1>10, Facts DEF Rests, l, m
<1> QED BY <1>11, RestsStep

(* A session that is not there. *)
LEMMA ClosedFields ==
    /\ Closed \in Sessions /\ Closed.pc = "closed" /\ Closed.after = "closed"
    /\ Closed.obj = "none" /\ Closed.batch = <<>> /\ Closed.tail = NoEvidence
    /\ Closed.receipts = {} /\ Closed.poisoned = FALSE
<1> DEFINE b == <<>>
           r == {}
           e == NoEvidence
<1>1. e \in Evidence /\ b \in Seq(Objects) /\ r \in SUBSET Objects
  BY DEF NoEvidence, Evidence
<1>2. Closed = [pc |-> "closed", after |-> "closed", trigger |-> "none", obj |-> "none",
                batch |-> b, number |-> 0, waiting |-> 0, receipts |-> r,
                poisoned |-> FALSE, sealed |-> FALSE,
                reason |-> "ClientDisconnected", tail |-> e]
  BY DEF Closed
<1> HIDE DEF b, r, e
<1>3. /\ Closed \in Sessions /\ Closed.pc = "closed" /\ Closed.after = "closed"
      /\ Closed.obj = "none" /\ Closed.batch = b /\ Closed.tail = e
      /\ Closed.receipts = r /\ Closed.poisoned = FALSE
  BY <1>1, <1>2 DEF Sessions
<1> QED BY <1>3 DEF b, r, e

LEMMA NoEvidenceOK ==
    NoEvidence \in Evidence /\ NoEvidence.names = <<>> /\ NoEvidence.synced = 0
BY DEF NoEvidence, Evidence

LEMMA ClosedOK ==
    ASSUME NEW pc \in {"closed", "closeout", "opening"}, NEW after \in {"closed", "opening"}
    PROVE  LET s == [Closed EXCEPT !.pc = pc, !.after = after]
           IN  /\ SessionOK(s) /\ s.pc = pc /\ s.after = after /\ s.obj = "none"
               /\ s.batch = <<>> /\ s.tail.names = <<>> /\ s.receipts = {} /\ s.poisoned = FALSE
<1> DEFINE c == Closed
           s == [c EXCEPT !.pc = pc, !.after = after]
<1>1. /\ c \in Sessions /\ c.obj = "none" /\ c.batch = <<>> /\ c.tail = NoEvidence
      /\ c.receipts = {} /\ c.poisoned = FALSE
  BY ClosedFields
<1> HIDE DEF c
<1>2. /\ s \in Sessions /\ s.pc = pc /\ s.after = after /\ s.obj = c.obj /\ s.batch = c.batch
      /\ s.tail = c.tail /\ s.receipts = c.receipts /\ s.poisoned = c.poisoned
  BY <1>1 DEF Sessions
<1> HIDE DEF s
<1>3. SessionOK(s) /\ s.tail.names = <<>>
  BY <1>1, <1>2, NoEvidenceOK DEF SessionOK
<1> QED BY <1>1, <1>2, <1>3 DEF s, c

LEMMA ClosedSame ==
    /\ Closed = [Closed EXCEPT !.pc = "closed", !.after = "closed"]
    /\ \A x : [Closed EXCEPT !.pc = x] = [Closed EXCEPT !.pc = x, !.after = "closed"]
<1> DEFINE c == Closed
<1>1. c \in Sessions /\ c.pc = "closed" /\ c.after = "closed"
  BY ClosedFields
<1> HIDE DEF c
<1>2. /\ c = [c EXCEPT !.pc = "closed", !.after = "closed"]
      /\ \A x : [c EXCEPT !.pc = x] = [c EXCEPT !.pc = x, !.after = "closed"]
  BY <1>1 DEF Sessions
<1> QED BY <1>2 DEF c

LEMMA EndStep ==
    ASSUME SessionInv, NEW t \in Tapes, End(t) PROVE SessionInv'
<1> DEFINE p == session[t]
           m == media[t]
           k == [log[t] EXCEPT !.open = FALSE, !.tail = p.tail.names, !.synced = p.tail.synced]
<1>1. /\ p \in Sessions /\ p.pc = "end" /\ LocalInv(log[t], m, p, told[t], catalog, promised)
      /\ log[t] \in Logs
  BY Facts DEF End, At
<1>2. /\ UNCHANGED <<media, catalog, admissions, timers, told, promised, unread>>
      /\ fence' = fence \/ fence' = fence \cup {t}
      /\ \/ /\ log' = [log EXCEPT ![t] = k]
            /\ \/ session' = [session EXCEPT ![t] = [Closed EXCEPT !.pc = "closeout"]]
               \/ session' = [session EXCEPT ![t] = Closed]
         \/ log' = log /\ session' = [session EXCEPT ![t] = Closed]
  BY DEF End, end_session, Quiet, Fault, Become
<1>3. p.batch = <<>>
  BY <1>1 DEF LocalInv, StageInv, Appending, Committing
<1>4. LogOK(k) /\ k.files = log[t].files /\ ~k.open
  <2> DEFINE n == p.tail.names
             y == p.tail.synced
             l == log[t]
  <2>1. n \in Seq(Files) /\ y \in Nat /\ y <= Len(n)
    BY <1>1 DEF LocalInv, SessionOK, Sessions, Evidence
  <2>2. k = [l EXCEPT !.open = FALSE, !.tail = n, !.synced = y] /\ l \in Logs
    BY <1>1
  <2> HIDE DEF n, y, l, k
  <2>3. k \in Logs /\ k.files = l.files /\ k.tail = n /\ k.synced = y /\ k.open = FALSE
    BY <2>1, <2>2 DEF Logs
  <2> QED BY <2>1, <2>3 DEF LogOK, l
<1>5. ASSUME NEW l, NEW pc \in {"closed", "closeout"}, log' = [log EXCEPT ![t] = l],
             LogOK(l), l.files = log[t].files, pc = "closed" \/ ~l.open,
             session' = [session EXCEPT ![t] = [Closed EXCEPT !.pc = pc, !.after = "closed"]]
      PROVE  SessionInv'
  <2> DEFINE s == [Closed EXCEPT !.pc = pc, !.after = "closed"]
  <2>1. /\ SessionOK(s) /\ s.pc = pc /\ s.after = "closed" /\ s.obj = "none"
        /\ s.batch = <<>> /\ s.receipts = {} /\ s.poisoned = FALSE
    BY ClosedOK
  <2>2. session' = [session EXCEPT ![t] = s]
    BY <1>5
  <2> HIDE DEF s, p, m
  <2>3. MediaOK(m) /\ Kept(l, m)
    BY <1>1, <1>5 DEF LocalInv, TapeInv, Kept
  <2>4. ASSUME NEW o \in Objects PROVE told[t][o] = "failed" => o \notin ToSet(l.files)
    BY <1>1, <1>3, <1>5, ToldResting
  <2>5. Resting(l, m, s, catalog')
    BY <1>5, <2>1 DEF Resting
  <2>6. Rests(t, l, m, s, told[t])
    BY <1>2, <1>5, <2>1, <2>2, <2>3, <2>4, <2>5, Facts DEF Rests, m
  <2> QED BY <2>6, RestsStep
<1>6. /\ Closed = [Closed EXCEPT !.pc = "closed", !.after = "closed"]
      /\ [Closed EXCEPT !.pc = "closeout"] = [Closed EXCEPT !.pc = "closeout", !.after = "closed"]
  BY ClosedSame
<1>7. log = [log EXCEPT ![t] = log[t]] /\ LogOK(log[t])
  BY <1>1, Facts DEF LocalInv
<1> HIDE DEF k
<1> QED BY <1>2, <1>4, <1>5, <1>6, <1>7

--------------------------------------------------------------------------------
(* Opening, and what an operator or the scan does between sessions. *)

(* The proof of a tape's tail moves the tape, and recovery records it. *)
LEMMA RecoveredOK ==
    ASSUME SessionInv, NEW t \in Tapes
    PROVE  LET l == [log[t] EXCEPT !.open = FALSE, !.tail = Suffix(t), !.synced = Len(Suffix(t))]
           IN  LogOK(l) /\ l.files = log[t].files /\ ~l.open
<1> DEFINE k == log[t]
           x == Suffix(t)
           n == Len(x)
           l == [k EXCEPT !.open = FALSE, !.tail = x, !.synced = n]
<1>1. k \in Logs /\ LogOK(k) /\ MediaOK(media[t]) /\ Kept(k, media[t])
  BY Facts DEF LocalInv, TapeInv
<1>2. /\ media[t].files \in Seq(Files) /\ media[t].synced \in Nat
      /\ media[t].synced <= Len(media[t].files) /\ Len(k.files) <= media[t].synced
      /\ Len(k.files) \in Nat
  BY <1>1 DEF MediaOK, Tape, Kept, LogOK, Logs
<1>3. Len(k.files) \in 0..Len(media[t].files)
  BY <1>2
<1>4. x \in Seq(Files) /\ n \in Nat
  BY <1>2, <1>3, BehindOK DEF Suffix, Committed
<1> HIDE DEF k, x, n
<1>5. l \in Logs /\ l.files = k.files /\ l.tail = x /\ l.synced = n /\ l.open = FALSE
  BY <1>1, <1>4 DEF Logs
<1> HIDE DEF l
<1>6. LogOK(l)
  BY <1>4, <1>5 DEF LogOK, n
<1> QED BY <1>5, <1>6 DEF l, k, x, n

LEMMA MovedOK ==
    ASSUME SessionInv, NEW t \in Tapes, NEW b \in BOOLEAN
    PROVE  /\ MediaOK(Synced(media[t])) /\ Kept(log[t], Synced(media[t]))
           /\ MediaOK([Synced(media[t]) EXCEPT !.stale = b])
           /\ Kept(log[t], [Synced(media[t]) EXCEPT !.stale = b])
<1> DEFINE m == media[t]
           g == Synced(m)
           h == [g EXCEPT !.stale = b]
<1>1. MediaOK(m) /\ Kept(log[t], m) /\ log[t] \in Logs
  BY Facts DEF LocalInv, TapeInv
<1>2. MediaOK(g) /\ g.files = m.files /\ g.synced = Len(m.files)
  BY <1>1, SyncedOK
<1> HIDE DEF g
<1>3. MediaOK(h) /\ h.files = m.files /\ h.synced = Len(m.files)
  BY <1>2, StaleOK
<1> HIDE DEF h
<1>4. Len(log[t].files) <= Len(m.files)
  BY <1>1 DEF Kept, Starts
<1> QED BY <1>1, <1>2, <1>3, <1>4 DEF Kept, Starts, g, h

(* From a closed session to one that is closed or is being opened. *)
LEMMA ClosedMoves ==
    ASSUME SessionInv, NEW t \in Tapes, session[t].pc = "closed", NEW l, NEW m, NEW s,
           log' = [log EXCEPT ![t] = l], media' = [media EXCEPT ![t] = m],
           session' = [session EXCEPT ![t] = s],
           UNCHANGED <<admissions, timers, told, promised, unread>>, fence' \in SUBSET Tapes,
           catalog \subseteq catalog', catalog' \subseteq catalog \cup ObjectsOf(log[t].files),
           LogOK(l), l.files = log[t].files, MediaOK(m), Kept(log[t], m), SessionOK(s),
           Resting(l, m, s, catalog'), s.pc = "closed" \/ ~l.open,
           s.receipts \subseteq session[t].receipts
    PROVE  SessionInv'
<1>1. LocalInv(log[t], media[t], session[t], told[t], catalog, promised)
  BY Facts
<1>2. session[t].batch = <<>>
  BY <1>1 DEF LocalInv, StageInv, Appending, Committing
<1>3. ASSUME NEW o \in Objects PROVE told[t][o] = "failed" => o \notin ToSet(l.files)
  BY <1>1, <1>2, ToldResting
<1>4. s.receipts \subseteq promised' \cup ToSet(l.files)
  BY <1>1 DEF LocalInv, ToldInv
<1>5. Kept(l, m)
  BY DEF Kept
<1>6. Rests(t, l, m, s, told[t])
  BY <1>3, <1>4, <1>5, Facts DEF Rests
<1> QED BY <1>6, RestsStep

LEMMA ProveFacts ==
    ASSUME SessionInv, NEW t \in Tapes, Prove(t)
    PROVE  /\ session[t].pc = "closed" /\ UNCHANGED <<admissions, timers, told, promised, unread>>
           /\ fence' \in SUBSET Tapes
           /\ \E l, m : /\ log' = [log EXCEPT ![t] = l] /\ media' = [media EXCEPT ![t] = m]
                        /\ LogOK(l) /\ l.files = log[t].files /\ ~l.open
                        /\ MediaOK(m) /\ Kept(log[t], m)
<1> DEFINE l == [log[t] EXCEPT !.open = FALSE, !.tail = Suffix(t), !.synced = Len(Suffix(t))]
           b == Suffix(t) # <<>>
           m == [Synced(media[t]) EXCEPT !.stale = b]
<1>1. /\ session[t].pc = "closed" /\ UNCHANGED <<admissions, timers, told, promised, unread, fence>>
      /\ log' = [log EXCEPT ![t] = l] /\ media' = [media EXCEPT ![t] = m]
  BY DEF Prove, At, Event, Recovered
<1>2. LogOK(l) /\ l.files = log[t].files /\ ~l.open
  BY RecoveredOK
<1>3. MediaOK(m) /\ Kept(log[t], m)
  BY MovedOK
<1>4. fence' \in SUBSET Tapes
  BY <1>1, Facts
<1> HIDE DEF l, m
<1> QED BY <1>1, <1>2, <1>3, <1>4

LEMMA OpenStep ==
    ASSUME SessionInv, NEW t \in Tapes, Open(t) PROVE SessionInv'
<1> DEFINE pc == IF log[t].due THEN "closeout" ELSE "opening"
           s == [Closed EXCEPT !.pc = pc, !.after = "opening"]
<1>1. /\ Prove(t) /\ catalog' = catalog \cup ObjectsOf(log[t].files)
      /\ session' = [session EXCEPT ![t] = s]
  BY DEF Open, Become
<1>2. pc \in {"closeout", "opening"}
  OBVIOUS
<1> HIDE DEF pc
<1>3. /\ SessionOK(s) /\ s.pc = pc /\ s.after = "opening" /\ s.obj = "none"
      /\ s.batch = <<>> /\ s.tail.names = <<>> /\ s.receipts = {}
  BY <1>2, ClosedOK
<1> HIDE DEF s
<1>4. PICK l, m : /\ log' = [log EXCEPT ![t] = l] /\ media' = [media EXCEPT ![t] = m]
                  /\ LogOK(l) /\ l.files = log[t].files /\ ~l.open
                  /\ MediaOK(m) /\ Kept(log[t], m)
  BY <1>1, ProveFacts
<1>5. /\ session[t].pc = "closed" /\ UNCHANGED <<admissions, timers, told, promised, unread>>
      /\ fence' \in SUBSET Tapes
  BY <1>1, ProveFacts
<1>6. Resting(l, m, s, catalog')
  BY <1>1, <1>2, <1>3, <1>4 DEF Resting
<1> QED BY <1>1, <1>3, <1>4, <1>5, <1>6, ClosedMoves

LEMMA CloseoutStep ==
    ASSUME SessionInv, NEW t \in Tapes, Closeout(t) PROVE SessionInv'
<1> DEFINE s == [Closed EXCEPT !.pc = "closeout", !.after = "closed"]
<1>1. Prove(t) /\ catalog' = catalog /\ session' = [session EXCEPT ![t] = s]
  BY ClosedSame DEF Closeout, Become
<1>2. /\ SessionOK(s) /\ s.pc = "closeout" /\ s.after = "closed" /\ s.obj = "none"
      /\ s.batch = <<>> /\ s.receipts = {}
  BY ClosedOK
<1> HIDE DEF s
<1>3. PICK l, m : /\ log' = [log EXCEPT ![t] = l] /\ media' = [media EXCEPT ![t] = m]
                  /\ LogOK(l) /\ l.files = log[t].files /\ ~l.open
                  /\ MediaOK(m) /\ Kept(log[t], m)
  BY <1>1, ProveFacts
<1>4. /\ session[t].pc = "closed" /\ UNCHANGED <<admissions, timers, told, promised, unread>>
      /\ fence' \in SUBSET Tapes
  BY <1>1, ProveFacts
<1>5. Resting(l, m, s, catalog')
  BY <1>2, <1>3 DEF Resting
<1> QED BY <1>1, <1>2, <1>3, <1>4, <1>5, ClosedMoves

LEMMA ContradictedStep ==
    ASSUME SessionInv, NEW t \in Tapes, OpenContradicted(t) PROVE SessionInv'
<1> DEFINE p == session[t]
           l == log[t]
           m == Synced(media[t])
<1>1. /\ p.pc = "closed" /\ UNCHANGED <<log, admissions, session, timers, told, promised, unread>>
      /\ catalog' = catalog \cup ObjectsOf(l.files) /\ media' = [media EXCEPT ![t] = m]
      /\ fence' = fence \cup {t}
  BY DEF OpenContradicted, At, Event
<1>2. /\ LocalInv(l, media[t], p, told[t], catalog, promised) /\ fence' \in SUBSET Tapes
      /\ log' = [log EXCEPT ![t] = l] /\ session' = [session EXCEPT ![t] = p]
  BY <1>1, Facts
<1>3. MediaOK(m) /\ Kept(l, m)
  BY MovedOK
<1>4. LogOK(l) /\ SessionOK(p) /\ p.batch = <<>> /\ p.obj = "none"
  BY <1>1, <1>2 DEF LocalInv, StageInv, Appending, Committing
<1>5. Resting(l, m, p, catalog')
  BY <1>1, <1>4 DEF Resting
<1> HIDE DEF p, l, m
<1> QED BY <1>1, <1>2, <1>3, <1>4, <1>5, ClosedMoves DEF p, l

(* What is in the log after supersede_tail: nothing new, or the ending of   *)
(* the session, whatever fails.                                             *)
LEMMA SupersededLog ==
    ASSUME SessionInv, NEW t \in Tapes, supersede_tail(t)
    PROVE  LET r == [log[t] EXCEPT !.open = FALSE, !.tail = Suffix(t), !.synced = Len(Suffix(t))]
           IN  \E l : /\ log' = [log EXCEPT ![t] = l] /\ LogOK(l) /\ l.files = log[t].files
                      /\ l.open \/ (l.due = r.due /\ l.tail = r.tail /\ l.synced = r.synced)
<1> DEFINE k == log[t]
           r == [k EXCEPT !.open = FALSE, !.tail = Suffix(t), !.synced = Len(Suffix(t))]
<1>1. LogOK(k) /\ log = [log EXCEPT ![t] = k] /\ k.open
  BY Facts DEF LocalInv, supersede_tail
<1>2. LogOK(r) /\ r.files = k.files
  BY RecoveredOK
<1>3. Recovered(t) = [log EXCEPT ![t] = r]
  BY DEF Recovered
<1>4. log' \in {log, Recovered(t), InDoubt(t, log), InDoubt(t, Recovered(t))}
  BY DEF supersede_tail
<1> SUFFICES \E l : /\ log' = [log EXCEPT ![t] = l] /\ LogOK(l) /\ l.files = k.files
                    /\ l.open \/ (l.due = r.due /\ l.tail = r.tail /\ l.synced = r.synced)
  OBVIOUS
<1> HIDE DEF k, r
<1>5. CASE log' = log
  BY <1>1, <1>5
<1>6. CASE log' = Recovered(t)
  BY <1>2, <1>3, <1>6
<1>7. CASE log' = InDoubt(t, log)
  <2>1. Replaces(log, t, k)
    BY <1>1 DEF Replaces
  <2>2. LogOK(k)
    BY <1>1
  <2>3. PICK d : /\ Replaces(InDoubt(t, log), t, d) /\ LogOK(d)
                 /\ d.files = k.files /\ d.open = k.open
    BY <2>1, <2>2, DoubtOK
  <2> QED BY <1>1, <1>7, <2>3 DEF Replaces
<1>8. CASE log' = InDoubt(t, Recovered(t))
  <2>1. Replaces(Recovered(t), t, r)
    BY <1>3 DEF Replaces
  <2>2. PICK d : /\ Replaces(InDoubt(t, Recovered(t)), t, d) /\ LogOK(d)
                 /\ d.files = r.files /\ d.due = r.due
                 /\ d.tail = r.tail /\ d.synced = r.synced
    BY <1>2, <2>1, DoubtOK
  <2> QED BY <1>2, <1>8, <2>2 DEF Replaces
<1> QED BY <1>4, <1>5, <1>6, <1>7, <1>8

LEMMA SupersedeStep ==
    ASSUME SessionInv, NEW t \in Tapes, supersede_tail(t) PROVE SessionInv'
<1> DEFINE p == session[t]
           m == Synced(media[t])
<1>1. /\ p.pc = "closed" /\ fence' \in {fence, fence \cup {t}}
      /\ UNCHANGED <<catalog, admissions, session, timers, told, promised, unread>>
      /\ media' = [media EXCEPT ![t] = m]
  BY DEF supersede_tail, At, Event, Fault
<1>2. /\ LocalInv(log[t], media[t], p, told[t], catalog, promised) /\ fence' \in SUBSET Tapes
      /\ session' = [session EXCEPT ![t] = p]
  BY <1>1, Facts
<1>3. MediaOK(m) /\ Kept(log[t], m)
  BY MovedOK
<1>4. SessionOK(p) /\ p.batch = <<>> /\ p.obj = "none"
  BY <1>1, <1>2 DEF LocalInv, StageInv, Appending, Committing
<1>5. PICK l : log' = [log EXCEPT ![t] = l] /\ LogOK(l) /\ l.files = log[t].files
  BY SupersededLog
<1> HIDE DEF m
<1>6. Resting(l, m, p, catalog')
  BY <1>1, <1>4 DEF Resting
<1> HIDE DEF p
<1> QED BY <1>1, <1>2, <1>3, <1>4, <1>5, <1>6, ClosedMoves DEF p

LEMMA OpeningStep ==
    ASSUME SessionInv, NEW t \in Tapes, Opening(t) PROVE SessionInv'
<1> DEFINE p == session[t]
           k == log[t]
           m == media[t]
           none == <<>>
           l == [k EXCEPT !.open = TRUE, !.tail = none, !.synced = 0]
           s == [p EXCEPT !.pc = "ready"]
<1>1. /\ p.pc = "opening" /\ UNCHANGED <<media, catalog, admissions, timers, fence, unread>>
      /\ log' = [log EXCEPT ![t] = l] /\ session' = [session EXCEPT ![t] = s]
      /\ told' = Answered(t, Objects, "none") /\ promised' = promised
  BY DEF Opening, At, Go, Become, Answer, Quiet
<1>2. /\ LocalInv(k, m, p, told[t], catalog, promised) /\ p \in Sessions /\ k \in Logs
      /\ none \in Seq(Files) /\ Len(none) = 0 /\ MaxBatch \in Nat \ {0}
  BY Facts
<1>3. PICK a \in [Objects -> Answers] :
         /\ told' = [told EXCEPT ![t] = a]
         /\ \A o \in Objects : a[o] = IF o \in Objects THEN "none" ELSE told[t][o]
  BY <1>1, AnsweredOK DEF Answers
<1>4. p.batch = <<>> /\ p.obj = "none" /\ p.tail.names = <<>> /\ ObjectsOf(k.files) \subseteq catalog
  BY <1>1, <1>2 DEF LocalInv, StageInv, TapeInv, OwnInv, Appending, Committing
<1> HIDE DEF p, k, m, none
<1>5. l \in Logs /\ l.files = k.files /\ l.tail = none /\ l.synced = 0
  BY <1>2 DEF Logs
<1>6. /\ s \in Sessions /\ s.pc = "ready" /\ s.obj = p.obj /\ s.batch = p.batch /\ s.tail = p.tail
      /\ s.receipts = p.receipts /\ s.poisoned = p.poisoned
  BY <1>2 DEF Sessions, Appending
<1> HIDE DEF l, s
<1>7. ToSet(s.batch) = {} /\ Pending(s) = Pending(p) /\ Len(s.batch) = 0
  BY <1>4, <1>6, ToSetEmpty DEF Pending
<1>8. LocalInv(l, m, s, a, catalog', promised')
  <2>1. LogOK(l) /\ MediaOK(m) /\ SessionOK(s)
    BY <1>2, <1>5, <1>6 DEF LocalInv, LogOK, SessionOK
  <2>2. StageInv(s)
    BY <1>2, <1>4, <1>6, <1>7 DEF StageInv, Appending, Committing
  <2>3. TapeInv(l, m, s)
    <3>1. k.files \o <<>> = k.files
      BY <1>2 DEF Logs
    <3>2. Kept(l, m) /\ Starts(m, k.files)
      BY <1>2, <1>5 DEF LocalInv, TapeInv, Kept
    <3>3. Starts(m, l.files \o s.batch)
      BY <1>4, <1>5, <1>6, <3>1, <3>2
    <3> QED BY <1>4, <1>6, <3>2, <3>3 DEF TapeInv
  <2>4. OwnInv(l, s, catalog')
    <3>1. Once(l)
      BY <1>2, <1>5 DEF LocalInv, OwnInv, Once
    <3> QED BY <1>1, <1>4, <1>5, <1>6, <1>7, <3>1 DEF OwnInv, Appending, Committing
  <2>5. ToldInv(l, s, a, promised')
    <3>1. s.receipts \subseteq promised' \cup ToSet(l.files)
      BY <1>1, <1>2, <1>5, <1>6 DEF LocalInv, ToldInv
    <3> QED BY <1>3, <1>6, <3>1 DEF ToldInv
  <2> QED BY <2>1, <2>2, <2>3, <2>4, <2>5 DEF LocalInv
<1>9. Moves(t, l, m, s, a)
  BY <1>1, <1>3, <1>5, <1>7, <1>8, Facts DEF Moves, p, k, m
<1> QED BY <1>9, Step

(* A step that at most projects a log, and fences or releases a tape. *)
LEMMA ProjectsStep ==
    ASSUME SessionInv, NEW t \in Tapes,
           UNCHANGED <<log, media, admissions, session, timers, told, promised, unread>>,
           fence' \in SUBSET Tapes, catalog \subseteq catalog',
           catalog' \subseteq catalog \cup ObjectsOf(log[t].files)
    PROVE  SessionInv'
<1> DEFINE p == session[t]
           l == log[t]
           m == media[t]
<1>1. SessionTypes /\ ClaimInv
  BY DEF SessionInv
<1>2. /\ log' = [log EXCEPT ![t] = l] /\ session' = [session EXCEPT ![t] = p]
      /\ media' = [media EXCEPT ![t] = m] /\ told' = [told EXCEPT ![t] = told[t]]
      /\ told[t] \in [Objects -> Answers] /\ timers' \in [Tapes -> SUBSET Timers]
      /\ LocalInv(l, m, p, told[t], catalog, promised)
  BY Facts
<1>3. Claims(t, l, p)
  <2>1. /\ Pending(p) \subseteq admissions'
        /\ \A u \in Tapes \ {t} : /\ Pending(session[u]) \subseteq admissions'
                                   /\ Pending(p) \cap Pending(session[u]) = {}
    BY <1>1 DEF ClaimInv
  <2>2. \A u \in Tapes \ unread : ObjectsOf(log[u].files) \subseteq catalog' \cup admissions'
    BY <1>1 DEF ClaimInv
  <2>3. \A u \in Tapes \ (unread \cup {t}) : \A o \in Pending(p) \cap ToSet(log[u].files) :
           p.pc = "admitted" /\ o = p.obj /\ o \in catalog'
    BY <1>1 DEF ClaimInv
  <2>4. t \notin unread =>
          /\ \A u \in Tapes \ {t} : \A o \in Pending(session[u]) \cap ToSet(l.files) :
                session[u].pc = "admitted" /\ o = session[u].obj /\ o \in catalog'
          /\ \A u \in Tapes \ (unread \cup {t}) :
                ObjectsOf(l.files) \cap ToSet(log[u].files) = {}
    BY <1>1 DEF ClaimInv
  <2> QED BY <1>2, <2>1, <2>2, <2>3, <2>4 DEF Claims
<1>4. ClaimInv'
  BY <1>1, <1>3, ClaimsStep
<1>5. LocalInv(l, m, p, told[t], catalog', promised')
  <2>1. OwnInv(l, p, catalog')
    BY <1>2 DEF LocalInv, OwnInv
  <2> QED BY <1>2, <2>1 DEF LocalInv
<1>6. /\ catalog' \cup promised' \subseteq Objects /\ admissions' \in SUBSET Objects
      /\ catalog' \cup promised' \subseteq catalog \cup promised \cup ToSet(l.files)
  BY <1>1 DEF SessionTypes, ObjectsOf
<1> DEFINE a == told[t]
<1>7. /\ a \in [Objects -> Answers] /\ told' = [told EXCEPT ![t] = a]
      /\ LocalInv(l, m, p, a, catalog', promised') /\ ToSet(log[t].files) \subseteq ToSet(l.files)
  BY <1>2, <1>5
<1> HIDE DEF p, m, l, a
<1>8. Local(t, l, m, p, a)
  BY <1>2, <1>6, <1>7 DEF Local
<1> QED BY <1>4, <1>8, Assemble

LEMMA ScanStep ==
    ASSUME SessionInv, NEW t \in Tapes, scan(t) PROVE SessionInv'
<1>1. /\ UNCHANGED <<log, media, admissions, session, timers, told, promised, unread, fence>>
      /\ catalog' = catalog \cup ObjectsOf(log[t].files)
  BY DEF scan, Quiet
<1>2. fence' \in SUBSET Tapes
  BY <1>1, Facts
<1> QED BY <1>1, <1>2, ProjectsStep

LEMMA ReleaseStep ==
    ASSUME SessionInv, NEW t \in Tapes, ReleaseFence(t) PROVE SessionInv'
<1>1. /\ UNCHANGED <<log, media, catalog, admissions, session, timers, told, promised, unread>>
      /\ fence' = fence \ {t}
  BY DEF ReleaseFence, Event
<1>2. fence' \in SUBSET Tapes
  BY <1>1, Facts
<1> QED BY <1>1, <1>2, ProjectsStep

--------------------------------------------------------------------------------
(* The closeout. *)

LEMMA ReplacedOK ==
    ASSUME SessionInv, NEW t \in Tapes, NEW f \in Files
    PROVE  LET g == Overwritten(Synced(media[t]), Committed(t), f)
           IN  /\ MediaOK(g) /\ Kept(log[t], g)
               /\ Starts(g, Append(log[t].files, f))
<1> DEFINE q == log[t].files
           n == Len(q)
           k == Synced(media[t])
           g == Overwritten(k, n, f)
           e == Append(q, f)
<1>1. MediaOK(k) /\ Kept(log[t], k) /\ log[t] \in Logs
  BY MovedOK, Facts
<1>2. /\ q \in Seq(Files) /\ n \in Nat /\ k.synced \in Nat /\ Len(k.files) \in Nat
      /\ n <= k.synced /\ k.synced <= Len(k.files)
      /\ \A i \in 1..n : k.files[i] = q[i]
  BY <1>1 DEF Logs, Kept, Starts, MediaOK, Tape, Files
<1>3. n \in 0..Len(k.files)
  BY <1>2
<1> HIDE DEF k, n, g
<1>4. /\ MediaOK(g) /\ Len(g.files) = n + 1 /\ g.files[n + 1] = f
      /\ \A i \in 1..n : g.files[i] = k.files[i]
      /\ g.synced = n \/ g.synced = k.synced
  BY <1>1, <1>3, OverwrittenOK DEF g
<1> HIDE DEF q
<1>5. /\ e \in Seq(Files) /\ Len(e) = n + 1 /\ e[n + 1] = f /\ \A i \in 1..n : e[i] = q[i]
  BY <1>2 DEF n
<1> HIDE DEF e
<1>6. n <= g.synced /\ n <= Len(g.files) /\ Len(e) <= Len(g.files)
  BY <1>2, <1>4, <1>5
<1>7. \A i \in 1..Len(e) : g.files[i] = e[i]
  <2> SUFFICES ASSUME NEW i \in 1..n + 1 PROVE g.files[i] = e[i]
    BY <1>5
  <2>1. i = n + 1 \/ i \in 1..n
    BY <1>2
  <2> QED BY <1>2, <1>4, <1>5, <2>1
<1>8. Kept(log[t], g)
  BY <1>2, <1>4, <1>6 DEF Kept, Starts, n, q
<1>9. Starts(g, e)
  BY <1>6, <1>7 DEF Starts
<1> QED BY <1>4, <1>8, <1>9 DEF g, k, n, e, q, Committed

LEMMA DispatchedOK ==
    ASSUME NEW e \in Evidence, e.synced <= Len(e.names), NEW f \in Files
    PROVE  /\ dispatched(e, f) \in Evidence /\ dispatched(e, f).names = Append(e.names, f)
           /\ dispatched(e, f).synced = e.synced
           /\ dispatched(e, f).synced <= Len(dispatched(e, f).names)
<1> DEFINE n == Append(e.names, f)
           d == dispatched(e, f)
<1>1. /\ n \in Seq(Files) /\ Len(n) = Len(e.names) + 1 /\ Len(e.names) \in Nat /\ e.synced \in Nat
  BY DEF Evidence
<1>2. d = [e EXCEPT !.names = n]
  BY DEF dispatched
<1> HIDE DEF n, d
<1>3. d \in Evidence /\ d.names = n /\ d.synced = e.synced
  BY <1>1, <1>2 DEF Evidence
<1>4. d.synced <= Len(d.names)
  BY <1>1, <1>3
<1> QED BY <1>3, <1>4 DEF n, d

LEMMA SidecarSet ==
    ASSUME SessionInv, NEW t \in Tapes
    PROVE  /\ Append(log[t].files, "sidecar") \in Seq(Objects \cup {"sidecar"})
           /\ Len(Append(log[t].files, "sidecar")) = Len(log[t].files) + 1
           /\ ToSet(log[t].files) \subseteq ToSet(Append(log[t].files, "sidecar"))
           /\ ObjectsOf(Append(log[t].files, "sidecar")) = ObjectsOf(log[t].files)
           /\ \A o \in Objects :
                 o \in ToSet(Append(log[t].files, "sidecar")) <=> o \in ToSet(log[t].files)
<1> DEFINE q == log[t].files
           r == Append(q, "sidecar")
<1>1. q \in Seq(Objects \cup {"sidecar"}) /\ "sidecar" \notin Objects
  BY Facts DEF Logs
<1> HIDE DEF q
<1>2. r \in Seq(Objects \cup {"sidecar"}) /\ Len(r) = Len(q) + 1
  BY <1>1
<1>3. ToSet(r) = ToSet(q) \cup {"sidecar"}
  BY <1>1, ToSetAppend
<1> HIDE DEF r
<1>4. ObjectsOf(r) = ObjectsOf(q) /\ \A o \in Objects : o \in ToSet(r) <=> o \in ToSet(q)
  BY <1>1, <1>3 DEF ObjectsOf
<1> QED BY <1>2, <1>3, <1>4 DEF r, q

(* From a closeout to wherever it goes. *)
ClosesOut(t, l, m, s) ==
    /\ log' = [log EXCEPT ![t] = l] /\ media' = [media EXCEPT ![t] = m]
    /\ session' = [session EXCEPT ![t] = s]
    /\ UNCHANGED <<admissions, timers, told, promised, unread>> /\ fence' \in SUBSET Tapes
    /\ catalog \subseteq catalog' /\ catalog' \subseteq catalog \cup ObjectsOf(log[t].files)
    /\ LogOK(l) /\ MediaOK(m) /\ Kept(l, m) /\ SessionOK(s) /\ l.open = log[t].open
    /\ l.files = log[t].files \/ l.files = Append(log[t].files, "sidecar")
    /\ Resting(l, m, s, catalog')
    /\ s.pc = "closed" \/ s.poisoned = session[t].poisoned
    /\ s.receipts \subseteq session[t].receipts

LEMMA ClosesOutStep ==
    ASSUME SessionInv, NEW t \in Tapes, session[t].pc \in {"closeout", "publish"},
           NEW l, NEW m, NEW s, ClosesOut(t, l, m, s)
    PROVE  SessionInv'
<1> USE DEF ClosesOut
<1>1. LocalInv(log[t], media[t], session[t], told[t], catalog, promised)
  BY Facts
<1>2. session[t].batch = <<>> /\ session[t].pc # "closed"
  BY <1>1 DEF LocalInv, StageInv, Appending, Committing
<1>3. /\ \A o \in Objects : o \in ToSet(l.files) <=> o \in ToSet(log[t].files)
      /\ ToSet(log[t].files) \subseteq ToSet(l.files)
  BY SidecarSet
<1>4. ASSUME NEW o \in Objects
      PROVE  /\ told[t][o] = "failed" => o \notin ToSet(l.files)
             /\ told[t][o] = "written" /\ l.open /\ ~s.poisoned /\ s.pc # "closed" =>
                   o \in ToSet(l.files)
  <2>1. /\ told[t][o] = "failed" => o \notin ToSet(log[t].files)
        /\ told[t][o] = "written" /\ log[t].open /\ ~session[t].poisoned => o \in ToSet(log[t].files)
    BY <1>1, <1>2, ToldResting
  <2> QED BY <1>3, <2>1
<1>5. s.receipts \subseteq promised' \cup ToSet(l.files)
  BY <1>1, <1>3 DEF LocalInv, ToldInv
<1>6. Rests(t, l, m, s, told[t])
  BY <1>4, <1>5, Facts DEF Rests
<1> QED BY <1>6, RestsStep

LEMMA RefusedOK ==
    ASSUME NEW v, SessionOK(v), v.batch = <<>>, v.obj = "none"
    PROVE  /\ SessionOK(Refused(v)) /\ Refused(v).pc \in {"closed", "end"}
           /\ Refused(v).batch = <<>> /\ Refused(v).obj = "none"
           /\ Refused(v).receipts \subseteq v.receipts
           /\ Refused(v).pc = "closed" \/ Refused(v).poisoned = v.poisoned
<1>1. CASE v.after = "opening"
  <2>1. Refused(v) = Closed
    BY <1>1 DEF Refused
  <2> DEFINE c == Closed
  <2>2. SessionOK(c) /\ c.pc = "closed" /\ c.batch = <<>> /\ c.obj = "none" /\ c.receipts = {}
    BY ClosedFields, NoEvidenceOK DEF SessionOK
  <2> HIDE DEF c
  <2> QED BY <2>1, <2>2 DEF c
<1>2. CASE v.after # "opening"
  <2> DEFINE x == v.after
             s == [v EXCEPT !.pc = x, !.reason = "CloseoutFailed"]
  <2>1. Refused(v) = s
    BY <1>2 DEF Refused
  <2>2. x \in {"closed", "end"} /\ v \in Sessions
    BY <1>2 DEF SessionOK, Sessions
  <2> HIDE DEF x
  <2>3. /\ s \in Sessions /\ s.pc = x /\ s.batch = v.batch /\ s.obj = v.obj
        /\ s.receipts = v.receipts /\ s.poisoned = v.poisoned /\ s.tail = v.tail
    BY <2>2 DEF Sessions
  <2> HIDE DEF s
  <2> QED BY <2>1, <2>2, <2>3 DEF SessionOK
<1> QED BY <1>1, <1>2

LEMMA WriteCloseoutStep ==
    ASSUME SessionInv, NEW t \in Tapes, write_closeout(t) PROVE SessionInv'
<1> DEFINE p == session[t]
           l == log[t]
           E == dispatched(p.tail, "sidecar")
           v == IF p.after = "end" THEN [p EXCEPT !.tail = E] ELSE p
           G(f) == Overwritten(Synced(media[t]), Committed(t), f)
           w == [v EXCEPT !.pc = "publish"]
<1>1. /\ p.pc = "closeout"
      /\ UNCHANGED <<log, catalog, admissions, timers, fence, told, promised, unread>>
      /\ \/ media' = [media EXCEPT ![t] = G("sidecar")] /\ session' = [session EXCEPT ![t] = w]
         \/ session' = [session EXCEPT ![t] = Refused(p)] /\ media' = media
         \/ session' = [session EXCEPT ![t] = Refused(v)] /\ media' = [media EXCEPT ![t] = G("half")]
  BY DEF write_closeout, At, Become, Quiet, Fault
<1>2. /\ LocalInv(l, media[t], p, told[t], catalog, promised) /\ p \in Sessions
      /\ fence' \in SUBSET Tapes /\ log' = [log EXCEPT ![t] = l]
      /\ media = [media EXCEPT ![t] = media[t]]
  BY <1>1, Facts
<1>3. SessionOK(p) /\ LogOK(l) /\ p.batch = <<>> /\ p.obj = "none"
  BY <1>1, <1>2 DEF LocalInv, StageInv, Appending, Committing
<1>4. /\ p.after = "end" \/ ~l.open
      /\ p.after = "opening" => ObjectsOf(l.files) \subseteq catalog
  BY <1>1, <1>2 DEF LocalInv, OwnInv, ToldInv
<1>5. /\ MediaOK(media[t]) /\ Kept(l, media[t])
      /\ \A f \in {"sidecar", "half"} : MediaOK(G(f)) /\ Kept(l, G(f))
      /\ Starts(G("sidecar"), Append(l.files, "sidecar"))
  <2>1. "sidecar" \in Files /\ "half" \in Files
    BY DEF Files
  <2> QED BY <1>2, <2>1, ReplacedOK DEF LocalInv, TapeInv
<1>6. E \in Evidence /\ E.synced <= Len(E.names)
  <2>1. p.tail \in Evidence /\ p.tail.synced <= Len(p.tail.names) /\ "sidecar" \in Files
    BY <1>3 DEF SessionOK, Sessions, Files
  <2> QED BY <2>1, DispatchedOK
<1> HIDE DEF p, l, E, G
<1>7. /\ SessionOK(v) /\ v.batch = <<>> /\ v.obj = "none" /\ v.receipts = p.receipts
      /\ v.poisoned = p.poisoned /\ v.after = p.after
  <2>1. CASE p.after = "end"
    <3> DEFINE x == [p EXCEPT !.tail = E]
    <3>1. /\ x \in Sessions /\ x.tail = E /\ x.batch = p.batch /\ x.obj = p.obj
          /\ x.receipts = p.receipts /\ x.poisoned = p.poisoned /\ x.after = p.after
      BY <1>2, <1>6 DEF Sessions
    <3> HIDE DEF x
    <3>2. v = x
      BY <2>1 DEF x
    <3> HIDE DEF v
    <3> QED BY <1>3, <1>6, <3>1, <3>2 DEF SessionOK
  <2>2. CASE p.after # "end"
    BY <1>3, <2>2
  <2> QED BY <2>1, <2>2
<1> HIDE DEF v
<1>8. CASE media' = [media EXCEPT ![t] = G("sidecar")] /\ session' = [session EXCEPT ![t] = w]
  <2>1. v \in Sessions
    BY <1>7 DEF SessionOK
  <2>2. /\ w \in Sessions /\ w.pc = "publish" /\ w.batch = v.batch /\ w.obj = v.obj
        /\ w.receipts = v.receipts /\ w.poisoned = v.poisoned /\ w.after = v.after
        /\ w.tail = v.tail
    BY <2>1 DEF Sessions
  <2> HIDE DEF w
  <2>3. SessionOK(w) /\ w.batch = <<>> /\ w.obj = "none"
    BY <1>7, <2>2 DEF SessionOK
  <2>4. Resting(l, G("sidecar"), w, catalog')
    BY <1>1, <1>4, <1>5, <1>7, <2>2, <2>3 DEF Resting
  <2>5. ClosesOut(t, l, G("sidecar"), w)
    BY <1>1, <1>2, <1>3, <1>5, <1>7, <1>8, <2>2, <2>3, <2>4 DEF ClosesOut, l, p
  <2> QED BY <1>1, <2>5, ClosesOutStep DEF p
<1>9. ASSUME NEW y \in {p, v}, NEW m, MediaOK(m), Kept(l, m), media' = [media EXCEPT ![t] = m],
             session' = [session EXCEPT ![t] = Refused(y)]
      PROVE  SessionInv'
  <2> DEFINE s == Refused(y)
  <2>1. /\ SessionOK(s) /\ s.pc \in {"closed", "end"} /\ s.batch = <<>> /\ s.obj = "none"
        /\ s.receipts \subseteq p.receipts /\ (s.pc = "closed" \/ s.poisoned = p.poisoned)
    <3>1. SessionOK(y) /\ y.batch = <<>> /\ y.obj = "none" /\ y.receipts = p.receipts
          /\ y.poisoned = p.poisoned
      BY <1>3, <1>7
    <3> QED BY <3>1, RefusedOK
  <2>2. session' = [session EXCEPT ![t] = s]
    BY <1>9
  <2> HIDE DEF s
  <2>3. Resting(l, m, s, catalog')
    BY <2>1 DEF Resting
  <2>4. ClosesOut(t, l, m, s)
    BY <1>1, <1>2, <1>3, <1>9, <2>1, <2>2, <2>3 DEF ClosesOut, l, p
  <2> QED BY <1>1, <2>4, ClosesOutStep DEF p
<1> QED BY <1>1, <1>2, <1>5, <1>8, <1>9

(* A drive that failed still holds what the log says. *)
LEMMA RemainsKept ==
    ASSUME NEW k, LogOK(k), NEW h, MediaOK(h), Kept(k, h), NEW g \in Remains(h)
    PROVE  MediaOK(g) /\ Kept(k, g)
<1>1. /\ MediaOK(g) /\ h.synced <= g.synced
      /\ \A i \in 1..h.synced : g.files[i] = h.files[i]
  BY RemainsOK
<1>2. Len(k.files) \in Nat /\ h.synced \in Nat /\ g.synced \in Nat /\ g.synced <= Len(g.files)
      /\ Len(g.files) \in Nat
  BY <1>1 DEF LogOK, Logs, MediaOK, Tape
<1>3. \A i \in 1..Len(k.files) : i \in 1..h.synced
  BY <1>2 DEF Kept
<1>4. Len(k.files) <= g.synced /\ Len(k.files) <= Len(g.files)
  BY <1>1, <1>2 DEF Kept
<1> QED BY <1>1, <1>3, <1>4 DEF Kept, Starts

LEMMA PublishStep ==
    ASSUME SessionInv, NEW t \in Tapes, publish_closed_out(t) PROVE SessionInv'
<1> DEFINE p == session[t]
           k == log[t]
           q == Append(k.files, "sidecar")
           none == <<>>
           l == [k EXCEPT !.files = q, !.due = FALSE, !.tail = none, !.synced = 0]
           kd == [k EXCEPT !.doubt = TRUE]
           ld == [l EXCEPT !.doubt = TRUE]
           E == NoEvidence
           c == [p EXCEPT !.tail = E]
           m == Synced(media[t])
           r == [c EXCEPT !.pc = p.after]
<1>1. /\ p.pc = "publish" /\ UNCHANGED <<admissions, timers, told, promised, unread>>
      /\ \/ /\ log' = [log EXCEPT ![t] = l] /\ media' = [media EXCEPT ![t] = m] /\ fence' = fence
            /\ catalog' = catalog \cup ObjectsOf(k.files)
            /\ session' = [session EXCEPT ![t] = IF p.after = "closed" THEN Closed ELSE r]
         \/ /\ UNCHANGED <<log, catalog, fence>> /\ session' = [session EXCEPT ![t] = Refused(p)]
            /\ \E g \in Remains(media[t]) \cup {m} : media' = [media EXCEPT ![t] = g]
         \/ /\ log' = [log EXCEPT ![t] = l] /\ media' = [media EXCEPT ![t] = m]
            /\ UNCHANGED <<catalog, fence>> /\ session' = [session EXCEPT ![t] = Refused(c)]
         \/ /\ media' = [media EXCEPT ![t] = m] /\ fence' = fence \cup {t} /\ catalog' = catalog
            /\ session' = [session EXCEPT ![t] = Closed]
            /\ log' = [log EXCEPT ![t] = kd] \/ log' = [log EXCEPT ![t] = ld]
  <2> DEFINE co == [log EXCEPT ![t].files = Append(@, "sidecar"), ![t].due = FALSE,
                               ![t].tail = <<>>, ![t].synced = 0]
  <2>1. log \in [Tapes -> Logs]
    BY DEF SessionInv, SessionTypes
  <2>2. co = [log EXCEPT ![t] = l]
    BY <2>1
  <2>3. InDoubt(t, log) = [log EXCEPT ![t] = kd]
    BY DEF InDoubt
  <2>4. InDoubt(t, co) = [log EXCEPT ![t] = ld]
    <3> HIDE DEF l, co
    <3> QED BY <2>1, <2>2 DEF InDoubt
  <2> HIDE DEF l, ld, kd
  <2> QED BY <2>2, <2>3, <2>4 DEF publish_closed_out, At, Become, Quiet, Fault
<1>2. /\ LocalInv(k, media[t], p, told[t], catalog, promised) /\ p \in Sessions /\ k \in Logs
      /\ log = [log EXCEPT ![t] = k]
  BY Facts
<1>3. SessionOK(p) /\ LogOK(k) /\ p.batch = <<>> /\ p.obj = "none"
  BY <1>1, <1>2 DEF LocalInv, StageInv, Appending, Committing
<1>4. /\ p.after = "end" \/ ~k.open
      /\ Starts(media[t], q) /\ MediaOK(media[t]) /\ Kept(k, media[t])
  BY <1>1, <1>2 DEF LocalInv, TapeInv, ToldInv
<1>5. fence' \in SUBSET Tapes
  BY <1>1, Facts
<1>6. /\ q \in Seq(Objects \cup {"sidecar"}) /\ Len(q) = Len(k.files) + 1
      /\ ObjectsOf(q) = ObjectsOf(k.files)
      /\ none \in Seq(Files) /\ Len(none) = 0
  BY SidecarSet
<1>7. MediaOK(m) /\ Kept(k, m) /\ m.files = media[t].files /\ m.synced = Len(m.files)
  <2>1. MediaOK(m) /\ m.files = media[t].files /\ m.synced = Len(media[t].files)
    BY <1>4, SyncedOK
  <2> QED BY <2>1, MovedOK
<1>8. E \in Evidence /\ E.names = <<>> /\ E.synced <= Len(E.names)
  BY NoEvidenceOK
<1> HIDE DEF p, k, q, none, m, E
<1>9. /\ l \in Logs /\ l.files = q /\ l.open = k.open /\ l.tail = none /\ l.synced = 0
      /\ kd \in Logs /\ kd.files = k.files /\ kd.open = k.open /\ kd.tail = k.tail
      /\ kd.synced = k.synced
  BY <1>2, <1>6 DEF Logs
<1> HIDE DEF l, kd
<1>10. /\ ld \in Logs /\ ld.files = q /\ ld.open = k.open /\ ld.tail = none /\ ld.synced = 0
  BY <1>9 DEF Logs
<1> HIDE DEF ld
<1>11. LogOK(l) /\ LogOK(kd) /\ LogOK(ld)
  BY <1>3, <1>6, <1>9, <1>10 DEF LogOK
<1>12. Kept(l, m) /\ Kept(ld, m) /\ Kept(kd, m)
  BY <1>4, <1>7, <1>9, <1>10 DEF Kept, Starts
<1>13. /\ c \in Sessions /\ c.tail = E /\ c.batch = p.batch /\ c.obj = p.obj
       /\ c.receipts = p.receipts /\ c.poisoned = p.poisoned /\ c.after = p.after
  BY <1>2, <1>8 DEF Sessions
<1> HIDE DEF c
<1>14. SessionOK(c) /\ c.batch = <<>> /\ c.obj = "none"
  BY <1>3, <1>8, <1>13 DEF SessionOK
<1>15. ASSUME NEW j, NEW g, NEW s, log' = [log EXCEPT ![t] = j], media' = [media EXCEPT ![t] = g],
              session' = [session EXCEPT ![t] = s], LogOK(j), MediaOK(g), Kept(j, g),
              j.open = k.open, j.files = k.files \/ j.files = q, SessionOK(s),
              Resting(j, g, s, catalog'), s.pc = "closed" \/ s.poisoned = p.poisoned,
              s.receipts \subseteq p.receipts,
              catalog' = catalog \/ catalog' = catalog \cup ObjectsOf(k.files)
       PROVE  SessionInv'
  <2>1. ClosesOut(t, j, g, s)
    BY <1>1, <1>5, <1>15 DEF ClosesOut, k, p, q
  <2> QED BY <1>1, <2>1, ClosesOutStep DEF p
<1>16. ASSUME NEW s, s = Closed
       PROVE  /\ SessionOK(s) /\ s.pc = "closed" /\ s.receipts \subseteq p.receipts
              /\ s.batch = <<>> /\ s.obj = "none"
  BY <1>16, ClosedFields, NoEvidenceOK DEF SessionOK
<1>17. ASSUME NEW s, NEW y \in {p, c}, s = Refused(y)
       PROVE  /\ SessionOK(s) /\ s.pc \in {"closed", "end"} /\ s.batch = <<>> /\ s.obj = "none"
              /\ s.receipts \subseteq p.receipts /\ (s.pc = "closed" \/ s.poisoned = p.poisoned)
  <2>1. SessionOK(y) /\ y.batch = <<>> /\ y.obj = "none" /\ y.receipts = p.receipts
        /\ y.poisoned = p.poisoned
    BY <1>3, <1>13, <1>14
  <2> QED BY <1>17, <2>1, RefusedOK
<1>18. CASE /\ log' = [log EXCEPT ![t] = l] /\ media' = [media EXCEPT ![t] = m]
            /\ catalog' = catalog \cup ObjectsOf(k.files)
            /\ session' = [session EXCEPT ![t] = IF p.after = "closed" THEN Closed ELSE r]
  <2>1. CASE p.after = "closed"
    <3> DEFINE s == Closed
    <3>1. session' = [session EXCEPT ![t] = s]
      BY <1>18, <2>1
    <3>2. /\ SessionOK(s) /\ s.pc = "closed" /\ s.receipts \subseteq p.receipts
          /\ s.batch = <<>> /\ s.obj = "none"
      BY <1>16
    <3> HIDE DEF s
    <3>3. Resting(l, m, s, catalog')
      BY <3>2 DEF Resting
    <3> QED BY <1>7, <1>9, <1>11, <1>12, <1>15, <1>18, <3>1, <3>2, <3>3
  <2>2. CASE p.after # "closed"
    <3>1. p.after \in {"opening", "end"}
      BY <1>2, <2>2 DEF Sessions
    <3> DEFINE x == p.after
               s == [c EXCEPT !.pc = x]
    <3>2. session' = [session EXCEPT ![t] = s] /\ x \in {"opening", "end"}
      BY <1>18, <2>2, <3>1
    <3> HIDE DEF x
    <3>3. /\ s \in Sessions /\ s.pc = x /\ s.tail = c.tail /\ s.batch = c.batch /\ s.obj = c.obj
          /\ s.receipts = c.receipts /\ s.poisoned = c.poisoned /\ s.after = c.after
      BY <1>13, <3>2 DEF Sessions
    <3> HIDE DEF s
    <3>4. SessionOK(s) /\ s.batch = <<>> /\ s.obj = "none" /\ s.tail.names = <<>>
      BY <1>8, <1>13, <1>14, <3>3 DEF SessionOK
    <3>5. Resting(l, m, s, catalog')
      BY <1>4, <1>6, <1>9, <1>18, <3>2, <3>3, <3>4 DEF Resting, x
    <3> QED BY <1>7, <1>9, <1>11, <1>12, <1>13, <1>15, <1>18, <3>2, <3>3, <3>4, <3>5
  <2> QED BY <2>1, <2>2
<1>19. CASE /\ log' = log /\ catalog' = catalog /\ session' = [session EXCEPT ![t] = Refused(p)]
            /\ \E g \in Remains(media[t]) \cup {m} : media' = [media EXCEPT ![t] = g]
  <2>1. PICK g \in Remains(media[t]) \cup {m} : media' = [media EXCEPT ![t] = g]
    BY <1>19
  <2>2. MediaOK(g) /\ Kept(k, g)
    <3>1. CASE g = m
      BY <1>7, <3>1
    <3>2. CASE g \in Remains(media[t])
      BY <1>3, <1>4, <3>2, RemainsKept
    <3> QED BY <2>1, <3>1, <3>2
  <2> DEFINE s == Refused(p)
  <2>3. /\ SessionOK(s) /\ s.pc \in {"closed", "end"} /\ s.batch = <<>> /\ s.obj = "none"
        /\ s.receipts \subseteq p.receipts /\ (s.pc = "closed" \/ s.poisoned = p.poisoned)
    BY <1>17
  <2>4. session' = [session EXCEPT ![t] = s] /\ log' = [log EXCEPT ![t] = k]
    BY <1>2, <1>19
  <2> HIDE DEF s
  <2>5. Resting(k, g, s, catalog')
    BY <2>3 DEF Resting
  <2> QED BY <1>3, <1>15, <1>19, <2>1, <2>2, <2>3, <2>4, <2>5
<1>20. CASE /\ log' = [log EXCEPT ![t] = l] /\ media' = [media EXCEPT ![t] = m]
            /\ catalog' = catalog /\ session' = [session EXCEPT ![t] = Refused(c)]
  <2> DEFINE s == Refused(c)
  <2>1. /\ SessionOK(s) /\ s.pc \in {"closed", "end"} /\ s.batch = <<>> /\ s.obj = "none"
        /\ s.receipts \subseteq p.receipts /\ (s.pc = "closed" \/ s.poisoned = p.poisoned)
    BY <1>17
  <2>2. session' = [session EXCEPT ![t] = s]
    BY <1>20
  <2> HIDE DEF s
  <2>3. Resting(l, m, s, catalog')
    BY <2>1 DEF Resting
  <2> QED BY <1>7, <1>9, <1>11, <1>12, <1>15, <1>20, <2>1, <2>2, <2>3
<1>21. CASE /\ media' = [media EXCEPT ![t] = m] /\ catalog' = catalog
            /\ session' = [session EXCEPT ![t] = Closed]
            /\ log' = [log EXCEPT ![t] = kd] \/ log' = [log EXCEPT ![t] = ld]
  <2> DEFINE s == Closed
  <2>1. /\ SessionOK(s) /\ s.pc = "closed" /\ s.receipts \subseteq p.receipts
        /\ s.batch = <<>> /\ s.obj = "none"
    BY <1>16
  <2>2. session' = [session EXCEPT ![t] = s]
    BY <1>21
  <2> HIDE DEF s
  <2>3. Resting(kd, m, s, catalog') /\ Resting(ld, m, s, catalog')
    BY <2>1 DEF Resting
  <2> QED BY <1>7, <1>9, <1>10, <1>11, <1>12, <1>15, <1>21, <2>1, <2>2, <2>3
<1> QED BY <1>1, <1>18, <1>19, <1>20, <1>21

--------------------------------------------------------------------------------
(* The barrier. *)

(* What a session has pending while it checkpoints is its batch. *)
LEMMA PendingBatch ==
    ASSUME NEW p, p \in Sessions, StageInv(p), p.pc \in {"sync", "commit"} \cup Committing
    PROVE  /\ Pending(p) = ToSet(p.batch) /\ ToSet(p.batch) \subseteq Objects
           /\ p.trigger = "append" => p.obj \in ToSet(p.batch)
           /\ p.trigger # "append" => p.obj = "none"
<1>1. /\ p.trigger = "append" => p.obj \in ToSet(p.batch)
      /\ p.trigger # "append" => p.obj = "none"
  BY DEF StageInv
<1>2. ToSet(p.batch) \subseteq Objects /\ "none" \notin Objects
  <2>1. p.batch \in Seq(Objects)
    BY DEF Sessions
  <2> QED BY <2>1, ToSetElements, SessionAssumption
<1> QED BY <1>1, <1>2 DEF Pending

(* The log that a commit leaves. *)
LEMMA CommitFiles ==
    ASSUME NEW k, NEW m, NEW p, NEW a, NEW cat, NEW prom, LocalInv(k, m, p, a, cat, prom),
           p.pc = "commit", NEW l, LogOK(l), l.files = k.files \o p.batch
    PROVE  /\ l.files \in Seq(Objects \cup {"sidecar"})
           /\ ToSet(l.files) = ToSet(k.files) \cup ToSet(p.batch)
           /\ Once(l) /\ Kept(l, m)
<1> DEFINE q == k.files
           b == p.batch
           f == l.files
           S == Objects \cup {"sidecar"}
<1>1. q \in Seq(S) /\ b \in Seq(S) /\ f = q \o b
  BY DEF LocalInv, LogOK, Logs, SessionOK, Sessions
<1> HIDE DEF q, b, f, S
<1>2. /\ f \in Seq(S) /\ ToSet(f) = ToSet(q) \cup ToSet(b) /\ Len(f) = Len(q) + Len(b)
      /\ \A i \in 1..Len(q) : f[i] = q[i]
      /\ \A i \in 1..Len(b) : f[Len(q) + i] = b[i]
      /\ Len(q) \in Nat /\ Len(b) \in Nat
  BY <1>1, ToSetConcat
<1>3. Once(l)
  <2>1. /\ \A i, j \in 1..Len(q) : i # j /\ q[i] = q[j] => q[i] \notin Objects
        /\ \A i, j \in 1..Len(b) : i # j => b[i] # b[j]
        /\ ToSet(b) \cap ToSet(q) = {}
    BY DEF LocalInv, StageInv, OwnInv, Once, Appending, q, b
  <2>2. /\ \A i \in 1..Len(q) : q[i] \in ToSet(q)
        /\ \A i \in 1..Len(b) : b[i] \in ToSet(b)
    BY <1>1, ToSetElements
  <2>3. ASSUME NEW i \in 1..Len(f), NEW j \in 1..Len(f), i # j, f[i] = f[j]
        PROVE  f[i] \notin Objects
    <3>1. \A n \in 1..Len(f) : n \in 1..Len(q) \/ n - Len(q) \in 1..Len(b)
      BY <1>2
    <3>2. \A n \in 1..Len(f) : n - Len(q) \in 1..Len(b) => f[n] = b[n - Len(q)]
      <4> SUFFICES ASSUME NEW n \in 1..Len(f), n - Len(q) \in 1..Len(b)
                   PROVE  f[n] = b[n - Len(q)]
        OBVIOUS
      <4>1. Len(q) + (n - Len(q)) = n
        BY <1>2
      <4> QED BY <1>2, <4>1
    <3>3. CASE i \in 1..Len(q) /\ j \in 1..Len(q)
      BY <1>2, <2>1, <2>3, <3>3
    <3>4. CASE i \in 1..Len(q) /\ j \notin 1..Len(q)
      <4>1. f[i] \in ToSet(q) /\ f[j] \in ToSet(b)
        BY <1>2, <2>2, <3>1, <3>2, <3>4
      <4> QED BY <2>1, <2>3, <4>1
    <3>5. CASE i \notin 1..Len(q) /\ j \in 1..Len(q)
      <4>1. f[j] \in ToSet(q) /\ f[i] \in ToSet(b)
        BY <1>2, <2>2, <3>1, <3>2, <3>5
      <4> QED BY <2>1, <2>3, <4>1
    <3>6. CASE i \notin 1..Len(q) /\ j \notin 1..Len(q)
      <4>1. /\ i - Len(q) \in 1..Len(b) /\ j - Len(q) \in 1..Len(b)
            /\ f[i] = b[i - Len(q)] /\ f[j] = b[j - Len(q)]
        BY <3>1, <3>2, <3>6
      <4>2. i - Len(q) # j - Len(q)
        BY <1>2, <2>3
      <4> QED BY <2>1, <2>3, <4>1, <4>2
    <3> QED BY <3>3, <3>4, <3>5, <3>6
  <2> QED BY <2>3 DEF Once, f
<1>4. Kept(l, m)
  <2>1. Starts(m, q \o b) /\ m.synced = Len(m.files)
    BY DEF LocalInv, TapeInv, Appending, q, b
  <2>2. Starts(m, f)
    BY <1>1, <2>1
  <2> QED BY <2>1, <2>2 DEF Kept, Starts, f
<1> QED BY <1>2, <1>3, <1>4 DEF q, b, f, S

(* A step of a session at its commit, to a log that has its batch. *)
Commits(t, l, s, a) ==
    /\ log' = [log EXCEPT ![t] = l] /\ session' = [session EXCEPT ![t] = s]
    /\ told' = [told EXCEPT ![t] = a] /\ a \in [Objects -> Answers]
    /\ UNCHANGED <<media, catalog, admissions, timers, fence, unread>>
    /\ promised \subseteq promised'
    /\ promised' \subseteq promised \cup session[t].receipts \cup ToSet(session[t].batch)
    /\ LogOK(l) /\ l.files = log[t].files \o session[t].batch
    /\ Pending(s) \subseteq Pending(session[t])
    /\ LocalInv(l, media[t], s, a, catalog', promised')

LEMMA CommitsStep ==
    ASSUME SessionInv, NEW t \in Tapes, session[t].pc = "commit",
           NEW l, NEW s, NEW a, Commits(t, l, s, a)
    PROVE  SessionInv'
<1> DEFINE p == session[t]
           k == log[t]
           m == media[t]
<1>1. /\ LocalInv(k, m, p, told[t], catalog, promised) /\ p \in Sessions
      /\ media' = [media EXCEPT ![t] = m] /\ SessionTypes /\ ClaimInv
      /\ timers' \in [Tapes -> SUBSET Timers] /\ fence' \in SUBSET Tapes
      /\ catalog \subseteq Objects /\ admissions \subseteq Objects /\ promised \subseteq Objects
  BY Facts DEF Commits, SessionInv
<1>2. ToSet(l.files) = ToSet(k.files) \cup ToSet(p.batch)
  <2> DEFINE b == told[t]
  <2>1. /\ LocalInv(k, m, p, b, catalog, promised) /\ p.pc = "commit" /\ LogOK(l)
        /\ l.files = k.files \o p.batch
    BY <1>1 DEF Commits
  <2> HIDE DEF k, m, p, b
  <2> QED BY <2>1, CommitFiles
<1>3. Pending(p) = ToSet(p.batch) /\ ToSet(p.batch) \subseteq Objects
  BY <1>1, PendingBatch DEF LocalInv
<1>4. p.receipts \subseteq Objects /\ p.receipts \subseteq promised \cup ToSet(k.files)
  BY <1>1 DEF LocalInv, ToldInv, Sessions
<1>5. Local(t, l, m, s, a)
  <2>1. /\ catalog' \cup promised' \subseteq Objects
        /\ catalog' \cup promised' \subseteq catalog \cup promised \cup ToSet(l.files)
        /\ admissions' \in SUBSET Objects /\ ToSet(k.files) \subseteq ToSet(l.files)
    BY <1>1, <1>2, <1>3, <1>4 DEF Commits
  <2> QED BY <1>1, <2>1 DEF Commits, Local
<1>6. Claims(t, l, s)
  <2>1. /\ Pending(s) \subseteq admissions'
        /\ \A u \in Tapes \ {t} : /\ Pending(session[u]) \subseteq admissions'
                                   /\ Pending(s) \cap Pending(session[u]) = {}
    BY <1>1 DEF ClaimInv, Commits
  <2>2. \A u \in Tapes \ unread : ObjectsOf(log[u].files) \subseteq catalog' \cup admissions'
    BY <1>1 DEF ClaimInv, Commits
  <2>3. t \notin unread => ObjectsOf(l.files) \subseteq catalog' \cup admissions'
    <3>1. Pending(p) \subseteq admissions'
      BY <1>1 DEF ClaimInv, Commits
    <3> QED BY <1>2, <1>3, <2>2, <3>1 DEF ObjectsOf
  <2>4. \A u \in Tapes \ (unread \cup {t}) : ToSet(p.batch) \cap ToSet(log[u].files) = {}
    BY <1>1, <1>3 DEF ClaimInv
  <2>5. \A u \in Tapes \ (unread \cup {t}) : \A o \in Pending(s) \cap ToSet(log[u].files) :
           s.pc = "admitted" /\ o = s.obj /\ o \in catalog'
    BY <1>3, <2>4 DEF Commits
  <2>6. ASSUME t \notin unread, NEW u \in Tapes \ {t}, NEW o \in Pending(session[u]) \cap ToSet(l.files)
        PROVE  session[u].pc = "admitted" /\ o = session[u].obj /\ o \in catalog'
    <3>1. o \notin ToSet(p.batch)
      BY <1>1, <1>3 DEF ClaimInv
    <3> QED BY <1>1, <1>2, <2>6, <3>1 DEF ClaimInv, Commits
  <2>7. ASSUME t \notin unread, NEW u \in Tapes \ (unread \cup {t})
        PROVE  ObjectsOf(l.files) \cap ToSet(log[u].files) = {}
    <3>1. ObjectsOf(k.files) \cap ToSet(log[u].files) = {}
      BY <1>1, <2>7 DEF ClaimInv
    <3> QED BY <1>2, <2>4, <3>1 DEF ObjectsOf
  <2> QED BY <2>1, <2>2, <2>3, <2>5, <2>6, <2>7 DEF Claims, Commits
<1>7. ClaimInv'
  BY <1>1, <1>6, ClaimsStep
<1> QED BY <1>5, <1>7, Assemble

(* What a barrier that failed leaves of the session and its answers. *)
Durable(kind) == kind \in {"unprojected", "projected"}
Broken(t, kind, p, s, a) ==
    /\ session' = [session EXCEPT ![t] = s] /\ SessionOK(s)
    /\ s.pc = "finish" /\ s.poisoned = TRUE /\ s.obj = "none" /\ s.batch = <<>>
    /\ told' = [told EXCEPT ![t] = a] /\ a \in [Objects -> Answers]
    /\ timers' = timers /\ fence' = fence
    /\ admissions' = IF kind \in {"uncertain", "unprojected"} THEN admissions
                     ELSE admissions \ ToSet(p.batch)
    /\ promised \subseteq promised'
    /\ ~Durable(kind) => s.receipts \subseteq p.receipts /\ promised' = promised
    /\ s.receipts \subseteq p.receipts \cup ToSet(p.batch)
    /\ promised' \subseteq promised \cup p.receipts \cup ToSet(p.batch)
    /\ \A o \in Objects : \/ a[o] = told[t][o]
                          \/ a[o] \in {"checkpointed", "uncertain"}
                          \/ kind = "before" /\ a[o] = "failed" /\ o \in ToSet(p.batch)

LEMMA BarrierBroken ==
    ASSUME SessionInv, NEW t \in Tapes, NEW q, SessionOK(q),
           q.batch = session[t].batch, q.obj = session[t].obj, q.trigger = session[t].trigger,
           q.receipts = session[t].receipts,
           session[t].pc \in {"sync", "commit"} \cup Committing,
           NEW kind \in {"before", "uncertain", "unprojected", "projected"},
           BarrierFails(t, kind, q)
    PROVE  \E s, a : Broken(t, kind, session[t], s, a)
<1> DEFINE p == session[t]
           B == ToSet(p.batch)
           none == <<>>
           R == IF Durable(kind) THEN Claimed(q) ELSE q.receipts
           E == IF Durable(kind) THEN NoEvidence ELSE q.tail
           z == [q EXCEPT !.batch = none, !.obj = "none", !.trigger = "none"]
           s == [z EXCEPT !.pc = "finish", !.poisoned = TRUE, !.reason = "FailedAppend",
                          !.receipts = R, !.tail = E]
           A == Asked(q)
           L == ToSet(q.batch) \cup ({q.obj} \cap Objects)
<1>1. /\ LocalInv(log[t], media[t], p, told[t], catalog, promised) /\ p \in Sessions
      /\ q \in Sessions /\ none \in Seq(Objects) /\ told[t] \in [Objects -> Answers]
      /\ told = [told EXCEPT ![t] = told[t]] /\ "none" \notin Objects
  BY Facts DEF SessionOK
<1>2. z \in Sessions /\ z.receipts = q.receipts /\ z.tail = q.tail /\ z.batch = none /\ z.obj = "none"
  <2> HIDE DEF none
  <2> QED BY <1>1 DEF Sessions
<1>3. /\ session' = [session EXCEPT ![t] = s] /\ timers' = timers /\ fence' = fence
      /\ admissions' = IF kind \in {"uncertain", "unprojected"} THEN admissions ELSE admissions \ L
      /\ \/ Durable(kind) /\ told' = Answered(t, A, "checkpointed") /\ promised' = promised \cup A
         \/ ~Durable(kind) /\ told' = told /\ promised' = promised
         \/ /\ kind = "uncertain" /\ told' = Answered(t, L, "uncertain") /\ promised' = promised
         \/ /\ kind = "before" /\ told' = Answered(t, L, "failed") /\ promised' = promised
  <2>1. Settled(q) = z
    BY DEF Settled
  <2>2. session' = [session EXCEPT ![t] = s]
    <3> HIDE DEF z
    <3>1. /\ z.receipts = q.receipts /\ z.tail = q.tail
      BY <1>2
    <3>2. s = [Settled(q) EXCEPT
                  !.pc = "finish", !.poisoned = TRUE, !.reason = "FailedAppend",
                  !.receipts = IF kind \in {"unprojected", "projected"} THEN Claimed(q) ELSE @,
                  !.tail = IF kind \in {"unprojected", "projected"} THEN NoEvidence ELSE @]
      BY <2>1, <3>1, <1>2 DEF Durable, Sessions
    <3> QED BY <3>2 DEF BarrierFails, Become
  <2>3. /\ timers' = timers /\ fence' = fence
        /\ admissions' = IF kind \in {"uncertain", "unprojected"} THEN admissions ELSE admissions \ L
    BY DEF BarrierFails, requires_identity_quarantine
  <2>4. \/ Durable(kind) /\ told' = Answered(t, A, "checkpointed") /\ promised' = promised \cup A
        \/ ~Durable(kind) /\ told' = told /\ promised' = promised
        \/ /\ kind = "uncertain" /\ told' = Answered(t, L, "uncertain") /\ promised' = promised
        \/ /\ kind = "before" /\ told' = Answered(t, L, "failed") /\ promised' = promised
    BY DEF BarrierFails, Answer, Durable
  <2> QED BY <2>2, <2>3, <2>4
<1>4. /\ Pending(p) = B /\ B \subseteq Objects /\ L = B
      /\ A \subseteq B \cup p.receipts /\ Claimed(q) \subseteq B \cup p.receipts
      /\ p.receipts \subseteq Objects
  <2>1. /\ Pending(p) = B /\ B \subseteq Objects
        /\ p.trigger = "append" => p.obj \in B
        /\ p.trigger # "append" => p.obj = "none"
    BY <1>1, PendingBatch DEF LocalInv
  <2>2. p.receipts \subseteq Objects
    BY <1>1 DEF Sessions
  <2> QED BY <1>1, <2>1, <2>2 DEF Asked, Claimed
<1>5. R \in SUBSET Objects /\ R \subseteq B \cup p.receipts /\ (~Durable(kind) => R = p.receipts)
  BY <1>4
<1>6. E \in Evidence /\ E.synced <= Len(E.names)
  BY NoEvidenceOK DEF SessionOK, Sessions
<1> HIDE DEF R, E, z, B, A, L, none
<1>7. /\ s \in Sessions /\ s.pc = "finish" /\ s.poisoned = TRUE /\ s.obj = z.obj /\ s.batch = z.batch
      /\ s.receipts = R /\ s.tail = E
  BY <1>2, <1>5, <1>6 DEF Sessions
<1> HIDE DEF s, p
<1>8. SessionOK(s) /\ s.batch = <<>> /\ s.obj = "none"
  BY <1>2, <1>6, <1>7 DEF SessionOK, none
<1>9. \E a \in [Objects -> Answers] :
         /\ told' = [told EXCEPT ![t] = a]
         /\ \A o \in Objects : \/ a[o] = told[t][o]
                               \/ a[o] \in {"checkpointed", "uncertain"}
                               \/ kind = "before" /\ a[o] = "failed" /\ o \in B
  <2>1. CASE Durable(kind) /\ told' = Answered(t, A, "checkpointed")
    <3>1. PICK a \in [Objects -> Answers] :
             /\ told' = [told EXCEPT ![t] = a]
             /\ \A o \in Objects : a[o] = IF o \in A THEN "checkpointed" ELSE told[t][o]
      BY <2>1, AnsweredOK DEF Answers
    <3> QED BY <3>1
  <2>2. CASE told' = told
    BY <1>1, <2>2
  <2>3. CASE kind = "uncertain" /\ told' = Answered(t, L, "uncertain")
    <3>1. PICK a \in [Objects -> Answers] :
             /\ told' = [told EXCEPT ![t] = a]
             /\ \A o \in Objects : a[o] = IF o \in L THEN "uncertain" ELSE told[t][o]
      BY <2>3, AnsweredOK DEF Answers
    <3> QED BY <3>1
  <2>4. CASE kind = "before" /\ told' = Answered(t, L, "failed")
    <3>1. PICK a \in [Objects -> Answers] :
             /\ told' = [told EXCEPT ![t] = a]
             /\ \A o \in Objects : a[o] = IF o \in L THEN "failed" ELSE told[t][o]
      BY <2>4, AnsweredOK DEF Answers
    <3> QED BY <1>4, <2>4, <3>1
  <2> QED BY <1>3, <2>1, <2>2, <2>3, <2>4
<1>10. PICK a \in [Objects -> Answers] :
         /\ told' = [told EXCEPT ![t] = a]
         /\ \A o \in Objects : \/ a[o] = told[t][o]
                               \/ a[o] \in {"checkpointed", "uncertain"}
                               \/ kind = "before" /\ a[o] = "failed" /\ o \in B
  BY <1>9
<1>11. /\ promised \subseteq promised' /\ promised' \subseteq promised \cup p.receipts \cup B
       /\ ~Durable(kind) => promised' = promised
  BY <1>3, <1>4 DEF Durable
<1>12. Broken(t, kind, p, s, a)
  BY <1>3, <1>4, <1>5, <1>7, <1>8, <1>10, <1>11 DEF Broken, B
<1> QED BY <1>12 DEF p

(* A barrier that failed and left the log's files as they were: the batch   *)
(* is not in the log, or it is there and, if it is released, projected.     *)
LEMMA BrokenRests ==
    ASSUME SessionInv, NEW t \in Tapes, NEW kind, NEW l, NEW m, NEW s, NEW a,
           Broken(t, kind, session[t], s, a),
           \/ session[t].pc \in {"sync", "commit"} /\ kind \in {"before", "uncertain"}
           \/ session[t].pc = "project" /\ kind = "unprojected"
           \/ session[t].pc = "decide" /\ kind = "projected",
           log' = [log EXCEPT ![t] = l], LogOK(l), l.files = log[t].files,
           media' = [media EXCEPT ![t] = m], MediaOK(m), Kept(log[t], m),
           catalog' = catalog, unread' = unread
    PROVE  SessionInv'
<1> DEFINE p == session[t]
           k == log[t]
           B == ToSet(p.batch)
<1>1. /\ LocalInv(k, media[t], p, told[t], catalog, promised) /\ p \in Sessions
      /\ timers \in [Tapes -> SUBSET Timers] /\ fence \in SUBSET Tapes
  BY Facts
<1>2. Pending(p) = B /\ B \subseteq Objects
  BY <1>1, PendingBatch DEF LocalInv, Committing
<1>3. p.receipts \subseteq promised \cup ToSet(k.files) /\ p.receipts \subseteq Objects
  BY <1>1 DEF LocalInv, ToldInv, Sessions
<1>4. /\ p.pc \in {"sync", "commit"} => B \cap ToSet(k.files) = {}
      /\ p.pc \in {"project", "decide"} => B \subseteq ToSet(k.files)
      /\ p.pc = "decide" => ObjectsOf(k.files) \subseteq catalog
  BY <1>1 DEF LocalInv, OwnInv, Appending, Committing
<1>5. Kept(l, m) /\ Resting(l, m, s, catalog')
  BY DEF Kept, Resting, Broken
<1>6. /\ s.receipts \subseteq promised' \cup ToSet(l.files)
      /\ promised' \subseteq catalog \cup promised \cup ObjectsOf(k.files)
  BY <1>2, <1>3, <1>4 DEF Broken, Durable, ObjectsOf
<1>7. \A o \in admissions \ admissions' : o \in Pending(p) /\ (o \in ToSet(k.files) => o \in catalog')
  BY <1>2, <1>4 DEF Broken, ObjectsOf
<1>8. ASSUME NEW o \in Objects, a[o] = "failed" PROVE o \notin ToSet(l.files)
  <2>1. told[t][o] = "failed" => o \notin ToSet(k.files)
    BY <1>1 DEF LocalInv, ToldInv
  <2> QED BY <1>4, <1>8, <2>1 DEF Broken
<1>9. Rests(t, l, m, s, a)
  BY <1>1, <1>5, <1>6, <1>7, <1>8 DEF Rests, Broken
<1> QED BY <1>9, RestsStep

LEMMA SynchronizeStep ==
    ASSUME SessionInv, NEW t \in Tapes, Synchronize(t) PROVE SessionInv'
<1> DEFINE p == session[t]
           l == log[t]
           h == media[t]
           m == Synced(h)
           e == p.tail
           x == [e EXCEPT !.synced = Len(e.names)]
           y == [e EXCEPT !.stopped = TRUE]
           s == [p EXCEPT !.pc = "commit", !.tail = x]
           q == [p EXCEPT !.tail = y]
<1>1. p.pc = "sync" /\ UNCHANGED <<log, catalog, unread>>
  BY DEF Synchronize, At, Quiet, Fault
<1>2. /\ LocalInv(l, h, p, told[t], catalog, promised) /\ p \in Sessions
      /\ told[t] \in [Objects -> Answers] /\ told = [told EXCEPT ![t] = told[t]]
      /\ log = [log EXCEPT ![t] = l]
  BY Facts
<1>3. LogOK(l) /\ MediaOK(h) /\ SessionOK(p) /\ Kept(l, h)
  BY <1>2 DEF LocalInv, TapeInv
<1>4. \/ /\ session' = [session EXCEPT ![t] = s] /\ media' = [media EXCEPT ![t] = m]
         /\ UNCHANGED <<admissions, timers, told, promised, fence>>
      \/ /\ \E g \in Remains(h) : media' = [media EXCEPT ![t] = g]
         /\ BarrierFails(t, "before", q)
      \/ media' = media /\ BarrierFails(t, "before", p)
  <2>1. /\ [p EXCEPT !.pc = "commit", !.tail.synced = Len(p.tail.names)] = s
        /\ [p EXCEPT !.tail.stopped = TRUE] = q
    BY <1>2 DEF Sessions
  <2> HIDE DEF s, q
  <2> QED BY <2>1 DEF Synchronize, Become
<1>5. /\ e \in Evidence /\ x \in Evidence /\ x.names = e.names /\ x.synced = Len(e.names)
      /\ y \in Evidence /\ y.names = e.names /\ y.synced = e.synced /\ e.synced <= Len(e.names)
  <2>1. e \in Evidence /\ e.synced <= Len(e.names)
    BY <1>3 DEF SessionOK, Sessions
  <2> DEFINE n == Len(e.names)
  <2>2. n \in Nat /\ x = [e EXCEPT !.synced = n]
    BY <2>1 DEF Evidence
  <2> HIDE DEF e, n, x
  <2>3. x \in Evidence /\ x.names = e.names /\ x.synced = n
    BY <2>1, <2>2 DEF Evidence
  <2>4. y \in Evidence /\ y.names = e.names /\ y.synced = e.synced
    BY <2>1 DEF Evidence
  <2> QED BY <2>1, <2>3, <2>4 DEF n
<1>6. MediaOK(m) /\ m.files = h.files /\ m.synced = Len(h.files)
  BY <1>3, SyncedOK
<1> HIDE DEF p, l, h, m, e, x, y
<1>7. /\ s \in Sessions /\ s.pc = "commit" /\ s.tail = x /\ s.batch = p.batch /\ s.obj = p.obj
      /\ s.trigger = p.trigger /\ s.receipts = p.receipts /\ s.poisoned = p.poisoned
      /\ q \in Sessions /\ q.tail = y /\ q.batch = p.batch /\ q.obj = p.obj
      /\ q.trigger = p.trigger /\ q.receipts = p.receipts
  BY <1>2, <1>5 DEF Sessions, Appending
<1> HIDE DEF s, q
<1>8. SessionOK(s) /\ SessionOK(q)
  BY <1>5, <1>7 DEF SessionOK
<1>9. CASE /\ session' = [session EXCEPT ![t] = s] /\ media' = [media EXCEPT ![t] = m]
           /\ UNCHANGED <<admissions, timers, told, promised, fence>>
  <2> DEFINE a == told[t]
  <2>1. Pending(s) = Pending(p)
    BY <1>7 DEF Pending
  <2>2. LocalInv(l, m, s, a, catalog', promised')
    <3>1. StageInv(s)
      BY <1>1, <1>2, <1>7 DEF LocalInv, StageInv, Appending, Committing
    <3>2. TapeInv(l, m, s)
      <4>1. /\ Kept(l, h) /\ e.names = p.batch /\ Starts(h, l.files \o p.batch)
        BY <1>1, <1>2 DEF LocalInv, TapeInv, Appending, e
      <4>2. Starts(m, l.files \o p.batch) /\ Starts(m, l.files)
        BY <1>6, <4>1 DEF Starts, Kept
      <4>3. Kept(l, m)
        BY <1>6, <4>2 DEF Kept, Starts
      <4> QED BY <1>5, <1>6, <1>7, <4>1, <4>2, <4>3 DEF TapeInv
    <3>3. OwnInv(l, s, catalog')
      BY <1>1, <1>2, <1>7 DEF LocalInv, OwnInv, Appending, Committing
    <3>4. ToldInv(l, s, a, promised')
      BY <1>1, <1>2, <1>7, <1>9, <2>1 DEF LocalInv, ToldInv
    <3> QED BY <1>3, <1>6, <1>8, <3>1, <3>2, <3>3, <3>4 DEF LocalInv
  <2>3. a \in [Objects -> Answers] /\ told' = [told EXCEPT ![t] = a]
    BY <1>2, <1>9
  <2> HIDE DEF a
  <2>4. Moves(t, l, m, s, a)
    BY <1>1, <1>9, <2>1, <2>2, <2>3, Facts DEF Moves, p, l
  <2> QED BY <2>4, Step
<1>10. CASE /\ \E g \in Remains(h) : media' = [media EXCEPT ![t] = g]
            /\ BarrierFails(t, "before", q)
  <2>1. PICK g \in Remains(h) : media' = [media EXCEPT ![t] = g]
    BY <1>10
  <2>2. MediaOK(g) /\ Kept(l, g)
    BY <1>3, RemainsKept
  <2>3. PICK s1, a : Broken(t, "before", session[t], s1, a)
    BY <1>1, <1>7, <1>8, <1>10, BarrierBroken DEF p
  <2> QED BY <1>1, <1>2, <1>3, <2>1, <2>2, <2>3, BrokenRests DEF p, l
<1>11. CASE media' = media /\ BarrierFails(t, "before", p)
  <2>1. media' = [media EXCEPT ![t] = h]
    BY <1>11, Facts DEF h
  <2>2. PICK s1, a : Broken(t, "before", session[t], s1, a)
    BY <1>1, <1>3, <1>11, BarrierBroken DEF p
  <2> QED BY <1>1, <1>2, <1>3, <2>1, <2>2, BrokenRests DEF p, l
<1> QED BY <1>4, <1>9, <1>10, <1>11

(* A barrier that failed although its batch is in the log. *)
LEMMA BrokenCommits ==
    ASSUME SessionInv, NEW t \in Tapes, NEW kind \in {"unprojected", "uncertain"},
           NEW l, NEW s, NEW a, Broken(t, kind, session[t], s, a), session[t].pc = "commit",
           log' = [log EXCEPT ![t] = l], LogOK(l), l.files = log[t].files \o session[t].batch,
           UNCHANGED <<media, catalog, unread>>
    PROVE  SessionInv'
<1> DEFINE p == session[t]
           k == log[t]
           m == media[t]
           b == told[t]
<1>1. /\ LocalInv(k, m, p, b, catalog, promised) /\ p \in Sessions
      /\ "none" \notin Objects /\ MaxBatch \in Nat
  BY Facts
<1>2. ToSet(l.files) = ToSet(k.files) \cup ToSet(p.batch) /\ Once(l) /\ Kept(l, m)
  <2>1. p.pc = "commit" /\ l.files = k.files \o p.batch
    OBVIOUS
  <2> HIDE DEF k, m, p, b
  <2> QED BY <1>1, <2>1, CommitFiles
<1>3. Pending(p) = ToSet(p.batch) /\ ToSet(p.batch) \subseteq Objects
  BY <1>1, PendingBatch DEF LocalInv
<1>4. Resting(l, m, s, catalog')
  BY DEF Resting, Broken
<1>5. s.receipts \subseteq promised' \cup ToSet(l.files)
  <2>1. p.receipts \subseteq promised \cup ToSet(k.files)
    BY <1>1 DEF LocalInv, ToldInv
  <2> QED BY <1>2, <2>1 DEF Broken
<1>6. ASSUME NEW o \in Objects
      PROVE  /\ a[o] = "failed" => o \notin ToSet(l.files)
             /\ a[o] = "written" /\ l.open /\ ~s.poisoned /\ s.pc # "closed" => o \in ToSet(l.files)
  <2>1. told[t][o] = "failed" => o \notin ToSet(k.files) \cup ToSet(p.batch)
    BY <1>1, <1>3 DEF LocalInv, ToldInv
  <2> QED BY <1>2, <2>1 DEF Broken
<1>7. MediaOK(m) /\ SessionOK(s)
  BY <1>1 DEF LocalInv, Broken
<1> HIDE DEF p, k, m, b
<1>8. LocalInv(l, m, s, a, catalog', promised') /\ Pending(s) = {}
  BY <1>1, <1>2, <1>4, <1>5, <1>6, <1>7, RestingOK
<1>9. Commits(t, l, s, a)
  BY <1>8 DEF Commits, Broken, Durable, p, k, m
<1> QED BY <1>9, CommitsStep

LEMMA CompleteReportStep ==
    ASSUME SessionInv, NEW t \in Tapes, complete_report(t) PROVE SessionInv'
<1> DEFINE p == session[t]
           k == log[t]
           m == media[t]
           f == k.files \o p.batch
           due == t \in Parity
           l == [k EXCEPT !.files = f, !.due = due]
           kd == [k EXCEPT !.doubt = TRUE]
           ld == [l EXCEPT !.doubt = TRUE]
           s == [p EXCEPT !.pc = "project"]
<1>1. /\ p.pc = "commit" /\ UNCHANGED <<media, catalog, unread>>
      /\ \/ /\ log' = [log EXCEPT ![t] = l] /\ session' = [session EXCEPT ![t] = s]
            /\ UNCHANGED <<admissions, timers, told, promised, fence>>
         \/ log' = log /\ BarrierFails(t, "before", p)
         \/ log' = [log EXCEPT ![t] = l] /\ BarrierFails(t, "unprojected", p)
         \/ log' = [log EXCEPT ![t] = kd] /\ BarrierFails(t, "uncertain", p)
         \/ log' = [log EXCEPT ![t] = ld] /\ BarrierFails(t, "uncertain", p)
  <2> DEFINE co == [log EXCEPT ![t].files = @ \o p.batch, ![t].due = t \in Parity]
  <2>1. log \in [Tapes -> Logs]
    BY DEF SessionInv, SessionTypes
  <2>2. co = [log EXCEPT ![t] = l]
    BY <2>1
  <2>3. InDoubt(t, log) = [log EXCEPT ![t] = kd]
    BY DEF InDoubt
  <2>4. InDoubt(t, co) = [log EXCEPT ![t] = ld]
    <3> HIDE DEF l, co
    <3> QED BY <2>1, <2>2 DEF InDoubt
  <2> HIDE DEF l, ld, kd
  <2> QED BY <2>2, <2>3, <2>4 DEF complete_report, At, Go, Become, Quiet, Fault
<1>2. /\ LocalInv(k, m, p, told[t], catalog, promised) /\ p \in Sessions /\ k \in Logs
      /\ log = [log EXCEPT ![t] = k] /\ media = [media EXCEPT ![t] = m]
      /\ told[t] \in [Objects -> Answers] /\ told = [told EXCEPT ![t] = told[t]]
  BY Facts
<1>3. LogOK(k) /\ MediaOK(m) /\ SessionOK(p) /\ Kept(k, m)
  BY <1>2 DEF LocalInv, TapeInv
<1>4. f \in Seq(Objects \cup {"sidecar"}) /\ due \in BOOLEAN
  <2>1. k.files \in Seq(Objects \cup {"sidecar"}) /\ p.batch \in Seq(Objects \cup {"sidecar"})
    BY <1>2 DEF Logs, Sessions
  <2> QED BY <2>1, ToSetConcat
<1> HIDE DEF p, k, m, f, due
<1>5. /\ l \in Logs /\ l.files = f /\ l.open = k.open /\ l.tail = k.tail /\ l.synced = k.synced
      /\ kd \in Logs /\ kd.files = k.files /\ kd.tail = k.tail /\ kd.synced = k.synced
  BY <1>2, <1>4 DEF Logs
<1> HIDE DEF l, kd
<1>6. ld \in Logs /\ ld.files = f /\ ld.tail = k.tail /\ ld.synced = k.synced
  BY <1>5 DEF Logs
<1> HIDE DEF ld
<1>7. LogOK(l) /\ LogOK(kd) /\ LogOK(ld)
  BY <1>3, <1>5, <1>6 DEF LogOK
<1>8. CASE /\ log' = [log EXCEPT ![t] = l] /\ session' = [session EXCEPT ![t] = s]
           /\ UNCHANGED <<admissions, timers, told, promised, fence>>
  <2> DEFINE a == told[t]
  <2>1. /\ s \in Sessions /\ s.pc = "project" /\ s.tail = p.tail /\ s.batch = p.batch
        /\ s.obj = p.obj /\ s.trigger = p.trigger /\ s.receipts = p.receipts
        /\ s.poisoned = p.poisoned
    BY <1>2 DEF Sessions, Committing
  <2> HIDE DEF s
  <2>2. SessionOK(s) /\ Pending(s) = Pending(p)
    BY <1>3, <2>1 DEF SessionOK, Pending
  <2>3. a \in [Objects -> Answers] /\ told' = [told EXCEPT ![t] = a]
        /\ LocalInv(k, m, p, a, catalog, promised)
    BY <1>2, <1>8
  <2>4. ToSet(l.files) = ToSet(k.files) \cup ToSet(p.batch) /\ Once(l) /\ Kept(l, m)
    <3>1. l.files = k.files \o p.batch /\ p.pc = "commit"
      BY <1>1, <1>5 DEF f
    <3> HIDE DEF a
    <3> QED BY <1>7, <2>3, <3>1, CommitFiles
  <2>5. Pending(p) = ToSet(p.batch) /\ ToSet(p.batch) \subseteq Objects
    BY <1>1, <1>2, PendingBatch DEF LocalInv
  <2>6. LocalInv(l, m, s, a, catalog', promised')
    <3>1. StageInv(s)
      BY <1>1, <1>2, <2>1 DEF LocalInv, StageInv, Appending, Committing
    <3>2. TapeInv(l, m, s)
      BY <2>1, <2>4 DEF TapeInv, Appending
    <3>3. OwnInv(l, s, catalog')
      BY <2>1, <2>4 DEF OwnInv, Appending, Committing
    <3>4. ToldInv(l, s, a, promised')
      <4>1. s.receipts \subseteq promised' \cup ToSet(l.files)
        BY <1>2, <1>8, <2>1, <2>4 DEF LocalInv, ToldInv
      <4>2. ASSUME NEW o \in Objects
            PROVE  /\ a[o] = "failed" => o \notin ToSet(l.files) \cup Pending(s)
                   /\ a[o] = "written" /\ l.open /\ ~s.poisoned /\ s.pc # "closed" =>
                         o \in ToSet(s.batch) \cup ToSet(l.files)
        BY <1>1, <2>3, <1>5, <2>1, <2>2, <2>4, <2>5 DEF LocalInv, ToldInv
      <4> QED BY <2>1, <4>1, <4>2 DEF ToldInv
    <3> QED BY <1>3, <1>7, <2>2, <3>1, <3>2, <3>3, <3>4 DEF LocalInv
  <2> HIDE DEF a
  <2>7. Commits(t, l, s, a)
    BY <1>1, <1>5, <1>7, <1>8, <2>2, <2>3, <2>6 DEF Commits, f, k, p, m
  <2> QED BY <1>1, <2>7, CommitsStep DEF p
<1>9. ASSUME NEW kind \in {"before", "uncertain", "unprojected", "projected"},
             BarrierFails(t, kind, p)
      PROVE  \E s1, a : Broken(t, kind, session[t], s1, a)
  BY <1>1, <1>3, <1>9, BarrierBroken DEF p
<1>10. CASE log' = log /\ BarrierFails(t, "before", p)
  <2>1. PICK s1, a : Broken(t, "before", session[t], s1, a)
    BY <1>9, <1>10
  <2> QED BY <1>1, <1>2, <1>3, <1>10, <2>1, BrokenRests DEF p, k, m
<1>11. CASE log' = [log EXCEPT ![t] = l] /\ BarrierFails(t, "unprojected", p)
  <2>1. PICK s1, a : Broken(t, "unprojected", session[t], s1, a)
    BY <1>9, <1>11
  <2> QED BY <1>1, <1>5, <1>7, <1>11, <2>1, BrokenCommits DEF p, k, f
<1>12. CASE log' = [log EXCEPT ![t] = kd] /\ BarrierFails(t, "uncertain", p)
  <2>1. PICK s1, a : Broken(t, "uncertain", session[t], s1, a)
    BY <1>9, <1>12
  <2> QED BY <1>1, <1>2, <1>3, <1>5, <1>7, <1>12, <2>1, BrokenRests DEF p, k, m
<1>13. CASE log' = [log EXCEPT ![t] = ld] /\ BarrierFails(t, "uncertain", p)
  <2>1. PICK s1, a : Broken(t, "uncertain", session[t], s1, a)
    BY <1>9, <1>13
  <2> QED BY <1>1, <1>6, <1>7, <1>13, <2>1, BrokenCommits DEF p, k, f
<1> QED BY <1>1, <1>8, <1>10, <1>11, <1>12, <1>13

LEMMA ProjectStep ==
    ASSUME SessionInv, NEW t \in Tapes, project_tape_log(t) PROVE SessionInv'
<1> DEFINE p == session[t]
           l == log[t]
           m == media[t]
           x == IF seal_due(t) THEN "decide" ELSE "done"
           s == [p EXCEPT !.pc = x]
<1>1. /\ p.pc = "project" /\ UNCHANGED <<log, media, unread>>
      /\ \/ /\ catalog' = catalog \cup ObjectsOf(l.files) /\ session' = [session EXCEPT ![t] = s]
            /\ UNCHANGED <<admissions, timers, told, promised, fence>>
         \/ catalog' = catalog /\ BarrierFails(t, "unprojected", p)
  BY DEF project_tape_log, At, Go, Become, Quiet, Fault
<1>2. /\ LocalInv(l, m, p, told[t], catalog, promised) /\ p \in Sessions
      /\ log = [log EXCEPT ![t] = l] /\ media = [media EXCEPT ![t] = m]
      /\ told[t] \in [Objects -> Answers] /\ told = [told EXCEPT ![t] = told[t]]
  BY Facts
<1>3. LogOK(l) /\ MediaOK(m) /\ SessionOK(p) /\ Kept(l, m)
  BY <1>2 DEF LocalInv, TapeInv
<1>4. x \in {"decide", "done"}
  OBVIOUS
<1> HIDE DEF p, l, m, x
<1>5. CASE /\ catalog' = catalog \cup ObjectsOf(l.files) /\ session' = [session EXCEPT ![t] = s]
           /\ UNCHANGED <<admissions, timers, told, promised, fence>>
  <2> DEFINE a == told[t]
  <2>1. /\ s \in Sessions /\ s.pc = x /\ s.tail = p.tail /\ s.batch = p.batch
        /\ s.obj = p.obj /\ s.trigger = p.trigger /\ s.receipts = p.receipts
        /\ s.poisoned = p.poisoned
    BY <1>2, <1>4 DEF Sessions, Committing
  <2> HIDE DEF s
  <2>2. SessionOK(s) /\ Pending(s) = Pending(p)
    BY <1>3, <2>1 DEF SessionOK, Pending
  <2>3. a \in [Objects -> Answers] /\ told' = [told EXCEPT ![t] = a]
        /\ LocalInv(l, m, p, a, catalog, promised)
    BY <1>2, <1>5
  <2> HIDE DEF a
  <2>4. LocalInv(l, m, s, a, catalog', promised')
    <3>1. StageInv(s)
      BY <1>1, <1>2, <1>4, <2>1 DEF LocalInv, StageInv, Appending, Committing
    <3>2. TapeInv(l, m, s)
      BY <1>3, <1>4, <2>1 DEF TapeInv, Appending
    <3>3. OwnInv(l, s, catalog')
      BY <1>1, <1>4, <1>5, <2>1, <2>3 DEF LocalInv, OwnInv, Appending, Committing
    <3>4. ToldInv(l, s, a, promised')
      BY <1>1, <1>4, <1>5, <2>1, <2>2, <2>3 DEF LocalInv, ToldInv
    <3> QED BY <1>3, <2>2, <3>1, <3>2, <3>3, <3>4 DEF LocalInv
  <2>5. Moves(t, l, m, s, a)
    BY <1>1, <1>2, <1>5, <2>2, <2>3, <2>4, Facts DEF Moves, p, l, m
  <2> QED BY <2>5, Step
<1>6. CASE catalog' = catalog /\ BarrierFails(t, "unprojected", p)
  <2>1. PICK s1, a : Broken(t, "unprojected", session[t], s1, a)
    BY <1>1, <1>3, <1>6, BarrierBroken DEF p, Committing
  <2> QED BY <1>1, <1>2, <1>3, <1>6, <2>1, BrokenRests DEF p, l, m
<1> QED BY <1>1, <1>5, <1>6

LEMMA DecideStep ==
    ASSUME SessionInv, NEW t \in Tapes, decide_live_finalization(t) PROVE SessionInv'
<1> DEFINE p == session[t]
           k == log[t]
           m == media[t]
           l == [k EXCEPT !.plan = TRUE]
           s == [p EXCEPT !.pc = "done", !.sealed = TRUE]
           q == [p EXCEPT !.sealed = TRUE]
<1>1. /\ p.pc = "decide" /\ UNCHANGED <<media, catalog, unread>>
      /\ \/ /\ log' = [log EXCEPT ![t] = l] /\ session' = [session EXCEPT ![t] = s]
            /\ UNCHANGED <<admissions, timers, told, promised, fence>>
         \/ log' \in Unplanned(t) /\ BarrierFails(t, "projected", q)
  BY DEF decide_live_finalization, Planned, At, Become, Quiet, Fault
<1>2. /\ LocalInv(k, m, p, told[t], catalog, promised) /\ p \in Sessions /\ k \in Logs
      /\ log = [log EXCEPT ![t] = k] /\ media = [media EXCEPT ![t] = m]
      /\ told[t] \in [Objects -> Answers] /\ told = [told EXCEPT ![t] = told[t]]
  BY Facts
<1>3. LogOK(k) /\ MediaOK(m) /\ SessionOK(p) /\ Kept(k, m)
  BY <1>2 DEF LocalInv, TapeInv
<1> HIDE DEF p, k, m
<1>4. /\ l \in Logs /\ l.files = k.files /\ l.open = k.open /\ l.tail = k.tail
      /\ l.synced = k.synced
  BY <1>2 DEF Logs
<1>5. /\ s \in Sessions /\ s.pc = "done" /\ s.tail = p.tail /\ s.batch = p.batch
      /\ s.obj = p.obj /\ s.trigger = p.trigger /\ s.receipts = p.receipts
      /\ s.poisoned = p.poisoned
      /\ q \in Sessions /\ q.tail = p.tail /\ q.batch = p.batch /\ q.obj = p.obj
      /\ q.trigger = p.trigger /\ q.receipts = p.receipts
  BY <1>2 DEF Sessions, Committing
<1> HIDE DEF l, s, q
<1>6. LogOK(l) /\ SessionOK(s) /\ SessionOK(q) /\ Pending(s) = Pending(p) /\ Kept(l, m)
  BY <1>3, <1>4, <1>5 DEF LogOK, SessionOK, Pending, Kept
<1>7. CASE /\ log' = [log EXCEPT ![t] = l] /\ session' = [session EXCEPT ![t] = s]
           /\ UNCHANGED <<admissions, timers, told, promised, fence>>
  <2> DEFINE a == told[t]
  <2>1. a \in [Objects -> Answers] /\ told' = [told EXCEPT ![t] = a]
        /\ LocalInv(k, m, p, a, catalog, promised)
    BY <1>2, <1>7
  <2> HIDE DEF a
  <2>2. LocalInv(l, m, s, a, catalog', promised')
    <3>1. StageInv(s)
      BY <1>1, <1>2, <1>5 DEF LocalInv, StageInv, Appending, Committing
    <3>2. TapeInv(l, m, s)
      BY <1>5, <1>6 DEF TapeInv, Appending
    <3>3. OwnInv(l, s, catalog')
      BY <1>1, <1>4, <1>5, <2>1 DEF LocalInv, OwnInv, Once, Appending, Committing
    <3>4. ToldInv(l, s, a, promised')
      BY <1>1, <1>4, <1>5, <1>6, <1>7, <2>1 DEF LocalInv, ToldInv
    <3> QED BY <1>3, <1>6, <3>1, <3>2, <3>3, <3>4 DEF LocalInv
  <2>3. Moves(t, l, m, s, a)
    BY <1>1, <1>2, <1>4, <1>6, <1>7, <2>1, <2>2, Facts DEF Moves, p, k, m
  <2> QED BY <2>3, Step
<1>8. CASE log' \in Unplanned(t) /\ BarrierFails(t, "projected", q)
  <2>1. PICK s1, a : Broken(t, "projected", session[t], s1, a)
    BY <1>1, <1>5, <1>6, <1>8, BarrierBroken DEF p, Committing
  <2>2. PICK d : log' = [log EXCEPT ![t] = d] /\ LogOK(d) /\ d.files = k.files
    BY <1>8, UnplannedOK DEF k
  <2> QED BY <1>1, <1>2, <1>3, <2>1, <2>2, BrokenRests DEF p, k, m
<1> QED BY <1>1, <1>7, <1>8

(* A barrier that succeeded leaves a session that is ready for its next     *)
(* batch, or at its end.                                                    *)
LEMMA BarrierDoneStep ==
    ASSUME SessionInv, NEW t \in Tapes, BarrierDone(t) PROVE SessionInv'
<1> DEFINE p == session[t]
           l == log[t]
           m == media[t]
           B == ToSet(p.batch)
           none == <<>>
           ends == p.trigger = "close" \/ p.sealed
           A == Asked(p)
           R == Claimed(p)
           E == NoEvidence
           x == IF ends THEN "finish" ELSE "ready"
           y == IF ends THEN "CleanClose" ELSE p.reason
           w == IF p.trigger = "timer" THEN p.number ELSE p.waiting
           n == [kind |-> "idle", batch |-> p.number]
           z == [p EXCEPT !.batch = none, !.obj = "none", !.trigger = "none"]
           d == [z EXCEPT !.receipts = R, !.tail = E, !.pc = x, !.reason = y, !.waiting = w]
           g == [d EXCEPT !.pc = "finish", !.poisoned = TRUE, !.reason = "FailedAppend"]
<1>1. /\ LocalInv(l, m, p, told[t], catalog, promised) /\ p \in Sessions
      /\ none \in Seq(Objects) /\ "none" \notin Objects /\ MaxBatch \in Nat \ {0}
      /\ log = [log EXCEPT ![t] = l] /\ media = [media EXCEPT ![t] = m]
      /\ timers \in [Tapes -> SUBSET Timers] /\ fence \in SUBSET Tapes
  BY Facts
<1>2. /\ p.pc = "done" /\ UNCHANGED <<log, media, catalog, fence, unread>>
      /\ told' = Answered(t, A, "checkpointed") /\ promised' = promised \cup A
      /\ admissions' = admissions \ B
  BY DEF BarrierDone, At, Answer, Quiet, Fault
<1>3. /\ \/ timers' = timers
         \/ timers' = [timers EXCEPT ![t] = @ \cup {n}]
      /\ \/ session' = [session EXCEPT ![t] = d]
         \/ session' = [session EXCEPT ![t] = g]
  <2>1. z.receipts = p.receipts /\ z.reason = p.reason /\ z.waiting = p.waiting /\ Settled(p) = z
    BY <1>1 DEF Sessions, Settled
  <2>2. d = [Settled(p) EXCEPT !.receipts = Claimed(p), !.tail = NoEvidence,
                               !.pc = IF ends THEN "finish" ELSE "ready",
                               !.reason = IF ends THEN "CleanClose" ELSE @,
                               !.waiting = IF p.trigger = "timer" THEN p.number ELSE @]
    <3>1. z \in Sessions
      <4> HIDE DEF none
      <4> QED BY <1>1 DEF Sessions
    <3> HIDE DEF z
    <3> QED BY <2>1, <3>1 DEF Sessions
  <2> HIDE DEF d
  <2> QED BY <2>2 DEF BarrierDone, Become
<1>4. /\ Pending(p) = B /\ B \subseteq Objects
      /\ A \subseteq B \cup p.receipts /\ R \subseteq B \cup p.receipts
      /\ p.receipts \subseteq Objects
  <2>1. /\ Pending(p) = B /\ B \subseteq Objects
        /\ p.trigger = "append" => p.obj \in B
    BY <1>1, <1>2, PendingBatch DEF LocalInv, Committing
  <2>2. p.receipts \subseteq Objects
    BY <1>1 DEF Sessions
  <2> QED BY <2>1, <2>2 DEF Asked, Claimed
<1>5. /\ B \subseteq ToSet(l.files) /\ ObjectsOf(l.files) \subseteq catalog /\ Once(l)
      /\ LogOK(l) /\ MediaOK(m) /\ Kept(l, m)
      /\ p.receipts \subseteq promised \cup ToSet(l.files)
  BY <1>1, <1>2 DEF LocalInv, OwnInv, TapeInv, ToldInv, Committing
<1>6. E \in Evidence /\ E.names = <<>> /\ E.synced <= Len(E.names)
  BY NoEvidenceOK
<1>7. /\ x \in {"finish", "ready"} /\ w \in Nat /\ R \in SUBSET Objects /\ n \in Timers
      /\ y \in {"ClientDisconnected", "CleanClose", "FailedAppend", "Abort", "ClientStall",
                "DriveError", "CloseoutFailed"}
  BY <1>1, <1>4 DEF Sessions, Timers
<1>8. timers' \in [Tapes -> SUBSET Timers]
  <2> HIDE DEF n
  <2> QED BY <1>1, <1>3, <1>7
<1> HIDE DEF p, l, m, B, none, ends, A, R, E, x, y, w, n
<1>9. /\ z \in Sessions /\ z.batch = none /\ z.obj = "none" /\ z.poisoned = p.poisoned
  BY <1>1 DEF Sessions
<1> HIDE DEF z
<1>10. /\ d \in Sessions /\ d.pc = x /\ d.batch = z.batch /\ d.obj = z.obj /\ d.receipts = R
       /\ d.tail = E /\ d.poisoned = z.poisoned
  BY <1>6, <1>7, <1>9 DEF Sessions, Appending
<1> HIDE DEF d
<1>11. /\ g \in Sessions /\ g.pc = "finish" /\ g.batch = d.batch /\ g.obj = d.obj
       /\ g.receipts = d.receipts /\ g.tail = d.tail /\ g.poisoned = TRUE
  BY <1>10 DEF Sessions
<1> HIDE DEF g
<1>12. PICK a \in [Objects -> Answers] :
          /\ told' = [told EXCEPT ![t] = a]
          /\ \A o \in Objects : a[o] = IF o \in A THEN "checkpointed" ELSE told[t][o]
  BY <1>2, AnsweredOK DEF Answers
<1>13. ASSUME NEW s \in {d, g}
       PROVE  /\ SessionOK(s) /\ s.batch = <<>> /\ s.obj = "none" /\ s.tail.names = <<>>
              /\ s.receipts \subseteq promised' \cup ToSet(l.files)
              /\ ToSet(s.batch) = {} /\ Pending(s) = {} /\ Len(s.batch) = 0
  <2>1. SessionOK(s) /\ s.batch = <<>> /\ s.obj = "none" /\ s.tail.names = <<>> /\ s.receipts = R
    BY <1>6, <1>9, <1>10, <1>11 DEF SessionOK, none
  <2>2. ToSet(s.batch) = {} /\ Pending(s) = {} /\ Len(s.batch) = 0
    BY <1>1, <2>1, ToSetEmpty DEF Pending
  <2> QED BY <1>2, <1>4, <1>5, <2>1, <2>2
<1>14. /\ promised' \subseteq catalog \cup promised \cup ObjectsOf(l.files)
       /\ \A o \in admissions \ admissions' :
             o \in Pending(p) /\ (o \in ToSet(l.files) => o \in catalog')
  BY <1>2, <1>4, <1>5 DEF ObjectsOf
<1>15. ASSUME NEW s \in {d, g}, NEW o \in Objects
       PROVE  /\ a[o] = "failed" => o \notin ToSet(l.files)
              /\ a[o] = "written" /\ l.open /\ ~s.poisoned /\ s.pc # "closed" =>
                    o \in ToSet(l.files)
  <2>1. /\ told[t][o] = "failed" => o \notin ToSet(l.files)
        /\ told[t][o] = "written" /\ l.open /\ ~p.poisoned => o \in B \cup ToSet(l.files)
    BY <1>1, <1>2 DEF LocalInv, ToldInv, B
  <2> QED BY <1>5, <1>9, <1>10, <1>11, <1>12, <2>1
<1>16. ASSUME NEW s \in {d, g}, session' = [session EXCEPT ![t] = s], s.pc = "finish"
       PROVE  SessionInv'
  <2>1. Resting(l, m, s, catalog')
    BY <1>13, <1>16 DEF Resting
  <2>2. Rests(t, l, m, s, a)
    BY <1>1, <1>2, <1>5, <1>8, <1>12, <1>13, <1>14, <1>15, <1>16, <2>1 DEF Rests, p, l
  <2> QED BY <2>2, RestsStep
<1>17. ASSUME session' = [session EXCEPT ![t] = d], d.pc = "ready"
       PROVE  SessionInv'
  <2>1. LocalInv(l, m, d, a, catalog', promised')
    <3>1. StageInv(d)
      BY <1>1, <1>13, <1>17 DEF StageInv, Appending, Committing
    <3>2. TapeInv(l, m, d)
      <4>1. l.files \o <<>> = l.files
        BY <1>5 DEF LogOK, Logs
      <4>2. Starts(m, l.files \o d.batch)
        BY <1>5, <1>13, <4>1 DEF Kept
      <4> QED BY <1>5, <1>13, <1>17, <4>2 DEF TapeInv
    <3>3. OwnInv(l, d, catalog')
      BY <1>2, <1>5, <1>13, <1>17 DEF OwnInv, Appending, Committing
    <3>4. ToldInv(l, d, a, promised')
      BY <1>13, <1>15, <1>17 DEF ToldInv
    <3> QED BY <1>5, <1>13, <3>1, <3>2, <3>3, <3>4 DEF LocalInv
  <2>2. Moves(t, l, m, d, a)
    BY <1>1, <1>2, <1>8, <1>12, <1>13, <1>14, <1>17, <2>1 DEF Moves, p, l
  <2> QED BY <2>2, Step
<1> QED BY <1>3, <1>7, <1>10, <1>11, <1>16, <1>17

--------------------------------------------------------------------------------
(* The host restarts: no session is left and nothing is claimed, so that an *)
(* object of a log is in the catalog or the log is marked as left out.      *)

LEMMA RestartStep ==
    ASSUME SessionInv, Restart, media' \in [Tapes -> Tape],
           \A t \in Tapes : MediaOK(media'[t]) /\ Kept(log[t], media'[t])
    PROVE  SessionInv'
<1> DEFINE L(t) == IF t \in fence THEN log[t] ELSE [log[t] EXCEPT !.doubt = FALSE]
           none == {}
           away == [o \in Objects |-> "none"]
<1>1. /\ log' = [t \in Tapes |-> L(t)] /\ session' = [t \in Tapes |-> Closed]
      /\ timers' = [t \in Tapes |-> none] /\ told' = [t \in Tapes |-> away]
      /\ admissions' = none /\ fence' = fence /\ promised' = promised
      /\ unread' = unread \cup {t \in Tapes : ~(ObjectsOf(log[t].files) \subseteq catalog')}
      /\ \E S \in SUBSET Tapes :
            catalog' = catalog \cup UNION {ObjectsOf(log[t].files) : t \in S}
  BY DEF Restart
<1>2. SessionTypes /\ ClaimInv /\ LoggedInv
  BY DEF SessionInv
<1>3. \A t \in Tapes : LocalInv(log[t], media[t], session[t], told[t], catalog, promised)
  BY DEF SessionInv
<1>4. away \in [Objects -> Answers] /\ (\A o \in Objects : away[o] = "none")
      /\ none \in SUBSET Timers
  BY DEF Answers
<1> HIDE DEF none, away
<1>5. ASSUME NEW t \in Tapes
      PROVE  /\ log'[t] = L(t) /\ session'[t] = Closed /\ told'[t] = away
             /\ L(t) \in Logs /\ L(t).files = log[t].files /\ L(t).tail = log[t].tail
             /\ L(t).synced = log[t].synced
  <2>1. log[t] \in Logs
    BY <1>2 DEF SessionTypes
  <2>2. L(t) \in Logs /\ L(t).files = log[t].files /\ L(t).tail = log[t].tail
        /\ L(t).synced = log[t].synced
    <3> DEFINE k == log[t]
    <3> HIDE DEF k
    <3>1. k \in Logs /\ L(t) = IF t \in fence THEN k ELSE [k EXCEPT !.doubt = FALSE]
      BY <2>1 DEF k
    <3> HIDE DEF L
    <3>2. L(t) \in Logs /\ L(t).files = k.files /\ L(t).tail = k.tail /\ L(t).synced = k.synced
      BY <3>1 DEF Logs
    <3> QED BY <3>2 DEF k
  <2> HIDE DEF L
  <2> QED BY <1>1, <2>2
<1> HIDE DEF L
<1>6. /\ catalog \subseteq catalog' /\ catalog' \subseteq Objects
      /\ \A o \in catalog' \cup promised' : \E t \in Tapes : o \in ToSet(log[t].files)
  BY <1>1, <1>2 DEF ObjectsOf, SessionTypes, LoggedInv
<1>7. SessionTypes'
  <2>1. log' \in [Tapes -> Logs]
    BY <1>1, <1>5
  <2>2. session' \in [Tapes -> Sessions]
    BY <1>1, ClosedFields
  <2>3. timers' \in [Tapes -> SUBSET Timers] /\ told' \in [Tapes -> [Objects -> Answers]]
    BY <1>1, <1>4
  <2>4. /\ catalog' \in SUBSET Objects /\ admissions' \in SUBSET Objects
        /\ promised' \in SUBSET Objects /\ fence' \in SUBSET Tapes /\ unread' \in SUBSET Tapes
    BY <1>1, <1>2, <1>6 DEF SessionTypes, none
  <2> QED BY <2>1, <2>2, <2>3, <2>4 DEF SessionTypes
<1>8. ASSUME NEW t \in Tapes
      PROVE  /\ LocalInv(log'[t], media'[t], session'[t], told'[t], catalog', promised')
             /\ Pending(session'[t]) = {} /\ log'[t].files = log[t].files
  <2> DEFINE l == log'[t]
             m == media'[t]
             s == session'[t]
             a == told'[t]
  <2>1. LogOK(log[t]) /\ Once(log[t])
    BY <1>3 DEF LocalInv, OwnInv
  <2>2. LogOK(l) /\ Once(l) /\ l.files = log[t].files
    BY <1>5, <2>1 DEF LogOK, Once
  <2>3. MediaOK(m) /\ Kept(l, m)
    BY <2>2 DEF Kept
  <2>4. /\ s.pc = "closed" /\ s.obj = "none" /\ s.batch = <<>> /\ s.receipts = {} /\ SessionOK(s)
    BY <1>5, ClosedFields, NoEvidenceOK DEF SessionOK
  <2>5. \A o \in Objects : a[o] = "none"
    BY <1>4, <1>5
  <2>6. "none" \notin Objects /\ MaxBatch \in Nat
    BY SessionAssumption
  <2> HIDE DEF l, m, s, a
  <2>7. Resting(l, m, s, catalog')
    BY <2>4 DEF Resting
  <2>8. LocalInv(l, m, s, a, catalog', promised') /\ Pending(s) = {}
    BY <2>2, <2>3, <2>4, <2>5, <2>6, <2>7, RestingOK
  <2> QED BY <2>2, <2>8 DEF l, m, s, a
<1>9. \A t \in Tapes : LocalInv(log[t], media[t], session[t], told[t], catalog, promised)'
  <2>1. ASSUME NEW t \in Tapes
        PROVE  LocalInv(log'[t], media'[t], session'[t], told'[t], catalog', promised')
    BY <1>8
  <2> QED BY <2>1 DEF LocalInv, LogOK, MediaOK, SessionOK, StageInv, TapeInv, OwnInv, ToldInv,
                      Kept, Once, Starts, Pending, ObjectsOf, ToSet
<1>10. ClaimInv'
  <2>1. \A t \in Tapes : Pending(session[t])' = {}
    BY <1>8 DEF Pending
  <2>2. \A t \in Tapes : ToSet(log[t].files)' = ToSet(log[t].files)
                         /\ ObjectsOf(log[t].files)' = ObjectsOf(log[t].files)
    BY <1>8 DEF ToSet, ObjectsOf
  <2>3. \A t \in Tapes \ unread' : ObjectsOf(log[t].files) \subseteq catalog'
    BY <1>1
  <2>4. \A t, u \in Tapes \ unread' : t # u => ObjectsOf(log[t].files) \cap ToSet(log[u].files) = {}
    <3>1. unread \subseteq unread'
      BY <1>1
    <3> QED BY <1>2, <3>1 DEF ClaimInv
  <2> QED BY <2>1, <2>2, <2>3, <2>4 DEF ClaimInv
<1>11. LoggedInv'
  <2>1. \A o \in catalog' \cup promised' : \E t \in Tapes : o \in ToSet(log'[t].files)
    BY <1>6, <1>8
  <2> QED BY <2>1 DEF LoggedInv, ToSet
<1> QED BY <1>7, <1>9, <1>10, <1>11 DEF SessionInv

LEMMA CrashStep ==
    ASSUME SessionInv, Crash PROVE SessionInv'
<1>1. /\ media' \in [Tapes -> Tape]
      /\ \A t \in Tapes : MediaOK(media'[t]) /\ Kept(log[t], media'[t])
  BY DEF Crash, SessionInv, SessionTypes, LocalInv, TapeInv
<1> QED BY <1>1, RestartStep DEF Crash

LEMMA PowerLossStep ==
    ASSUME SessionInv, NEW t \in Tapes, PowerLoss(t) PROVE SessionInv'
<1>1. PICK g \in Remains(media[t]) : media' = [media EXCEPT ![t] = g]
  BY DEF PowerLoss
<1>2. \A u \in Tapes : LogOK(log[u]) /\ MediaOK(media[u]) /\ Kept(log[u], media[u])
  BY DEF SessionInv, LocalInv, TapeInv
<1>3. media \in [Tapes -> Tape]
  BY DEF SessionInv, SessionTypes
<1>4. MediaOK(g) /\ Kept(log[t], g)
  BY <1>2, RemainsKept
<1>5. /\ media' \in [Tapes -> Tape]
      /\ \A u \in Tapes : MediaOK(media'[u]) /\ Kept(log[u], media'[u])
  BY <1>1, <1>2, <1>3, <1>4 DEF MediaOK
<1> QED BY <1>5, RestartStep DEF PowerLoss

--------------------------------------------------------------------------------
(* The invariant of the specification. *)

LEMMA SessionInit == Init => SessionInv
<1> SUFFICES ASSUME Init PROVE SessionInv
  OBVIOUS
<1> DEFINE empty == <<>>
           none == {}
           k == [files |-> empty, open |-> FALSE, due |-> FALSE, plan |-> FALSE, tail |-> empty,
                 synced |-> 0, doubt |-> FALSE]
           m == [files |-> empty, synced |-> 0, under |-> empty, stale |-> FALSE]
           away == [o \in Objects |-> "none"]
           s == Closed
<1>1. /\ log = [t \in Tapes |-> k] /\ media = [t \in Tapes |-> m] /\ session = [t \in Tapes |-> s]
      /\ timers = [t \in Tapes |-> none] /\ told = [t \in Tapes |-> away]
      /\ catalog = {} /\ admissions = {} /\ fence = {} /\ promised = {} /\ unread = {}
  BY DEF Init
<1>2. /\ empty \in Seq(Objects \cup {"sidecar"}) /\ empty \in Seq(Files) /\ Len(empty) = 0
      /\ none \in SUBSET Timers /\ ToSet(empty) = {}
      /\ "none" \notin Objects /\ MaxBatch \in Nat
  BY ToSetEmpty, SessionAssumption
<1>3. away \in [Objects -> Answers] /\ \A o \in Objects : away[o] = "none"
  BY DEF Answers
<1>4. /\ SessionOK(s) /\ s.pc = "closed" /\ s.obj = "none" /\ s.batch = <<>> /\ s.receipts = {}
  BY ClosedFields, NoEvidenceOK DEF SessionOK
<1> HIDE DEF empty, none, away, s
<1>5. /\ k \in Logs /\ k.files = empty /\ k.tail = empty /\ k.synced = 0
      /\ m \in Tape /\ m.files = empty /\ m.synced = 0
  BY <1>2 DEF Logs, Tape
<1> HIDE DEF k, m
<1>6. LogOK(k) /\ MediaOK(m) /\ Kept(k, m) /\ Once(k)
  BY <1>2, <1>5 DEF LogOK, MediaOK, Kept, Starts, Once
<1>7. Resting(k, m, s, catalog)
  BY <1>4 DEF Resting
<1>8. LocalInv(k, m, s, away, catalog, promised) /\ Pending(s) = {}
  BY <1>2, <1>3, <1>4, <1>6, <1>7, RestingOK
<1>9. SessionTypes
  BY <1>1, <1>2, <1>3, <1>4, <1>5 DEF SessionTypes, SessionOK
<1>10. \A t \in Tapes : /\ LocalInv(log[t], media[t], session[t], told[t], catalog, promised)
                        /\ Pending(session[t]) = {} /\ ToSet(log[t].files) = {}
  BY <1>1, <1>2, <1>5, <1>8
<1>11. ClaimInv /\ LoggedInv
  BY <1>1, <1>10 DEF ClaimInv, LoggedInv, ObjectsOf
<1> QED BY <1>9, <1>10, <1>11 DEF SessionInv

LEMMA SessionSame ==
    ASSUME SessionInv,
           UNCHANGED <<log, media, catalog, admissions, session, timers, fence, told, promised,
                       unread>>
    PROVE  SessionInv'
<1>1. SessionTypes'
  BY DEF SessionInv, SessionTypes
<1>2. \A t \in Tapes : LocalInv(log[t], media[t], session[t], told[t], catalog, promised)'
  <2>1. ASSUME NEW t \in Tapes
        PROVE  LocalInv(log'[t], media'[t], session'[t], told'[t], catalog', promised')
    BY DEF SessionInv
  <2> QED BY <2>1 DEF LocalInv, LogOK, MediaOK, SessionOK, StageInv, TapeInv, OwnInv, ToldInv,
                      Kept, Once, Starts, Pending, ObjectsOf, ToSet
<1>3. ClaimInv' /\ LoggedInv'
  BY DEF SessionInv, ClaimInv, LoggedInv, Pending, ObjectsOf, ToSet
<1> QED BY <1>1, <1>2, <1>3 DEF SessionInv

(* The audit of a mounted drive fails, and its process ends. *)
LEMMA AuditStep ==
    ASSUME SessionInv, NEW t \in Tapes, FinishMountedInvocation(t) \/ AuditFails(t)
    PROVE  SessionInv'
<1>1. CASE AuditFails(t)
  BY <1>1, SessionSame DEF AuditFails
<1>2. CASE FinishMountedInvocation(t)
  <2>1. UNCHANGED <<log, media, catalog, timers, fence, unread>>
    BY <1>2 DEF FinishMountedInvocation
  <2>2. \/ /\ session[t].pc = "ready"
           /\ Become(t, [session[t] EXCEPT !.pc = "finish", !.batch = <<>>])
           /\ Answer(t, ToSet(session[t].batch), "none")
           /\ admissions' = admissions \ ToSet(session[t].batch)
        \/ UNCHANGED <<session, admissions, told, promised>>
    BY <1>2 DEF FinishMountedInvocation, At
  <2> QED BY <2>1, <2>2, MountedEnds, SessionSame
<1> QED BY <1>1, <1>2

LEMMA SessionNext == SessionInv /\ [Next]_vars => SessionInv'
<1> SUFFICES ASSUME SessionInv, [Next]_vars PROVE SessionInv'
  OBVIOUS
<1>1. CASE UNCHANGED vars
  BY <1>1, SessionSame DEF vars
<1>2. ASSUME NEW t \in Tapes, Actor(t) PROVE SessionInv'
  <2>1. CASE Opening(t) \/ maybe_replay_pool_write(t)
    BY <2>1, OpeningStep, ReplayStep
  <2>2. CASE Write(t) \/ WriteRefused(t) \/ Rollover(t) \/ WriteFails(t)
    BY <2>2, WriteStep, WriteRefusedStep, RolloverStep, WriteFailsStep
  <2>3. CASE Synchronize(t) \/ complete_report(t) \/ project_tape_log(t)
    BY <2>3, SynchronizeStep, CompleteReportStep, ProjectStep
  <2>4. CASE decide_live_finalization(t) \/ BarrierDone(t)
    BY <2>4, DecideStep, BarrierDoneStep
  <2>5. CASE Finish(t) \/ End(t) \/ write_closeout(t) \/ publish_closed_out(t)
    BY <2>5, FinishStep, EndStep, WriteCloseoutStep, PublishStep
  <2> QED BY <1>2, <2>1, <2>2, <2>3, <2>4, <2>5 DEF Actor
<1>3. ASSUME NEW t \in Tapes, Timer(t) PROVE SessionInv'
  BY <1>3, TimerCheckpointStep, TimerIdleStep DEF Timer
<1>4. ASSUME NEW t \in Tapes,
             \/ Open(t) \/ Closeout(t) \/ OpenContradicted(t) \/ supersede_tail(t)
             \/ ReleaseFence(t) \/ scan(t) \/ PowerLoss(t)
      PROVE  SessionInv'
  BY <1>4, OpenStep, CloseoutStep, ContradictedStep, SupersedeStep, ReleaseStep, ScanStep,
     PowerLossStep
<1>5. ASSUME NEW t \in Tapes,
             \/ \E o \in Objects : reserve(t, o)
             \/ handle_checkpoint(t) \/ handle_close(t) \/ handle_abort(t)
      PROVE  SessionInv'
  BY <1>5, ReserveStep, CheckpointStep, CloseStep, AbortStep
<1>6. ASSUME NEW t \in Tapes, FinishMountedInvocation(t) \/ AuditFails(t) PROVE SessionInv'
  BY <1>6, AuditStep
<1> QED BY <1>1, <1>2, <1>3, <1>4, <1>5, <1>6, CrashStep DEF Next

(* Only a mounted drive can have failed to audit. *)
AuditInv == unaudited \subseteq mounted

LEMMA AuditNext == AuditInv /\ [Next]_vars => AuditInv'
<1> SUFFICES ASSUME AuditInv, [Next]_vars PROVE unaudited' \subseteq mounted'
  BY DEF AuditInv
<1> USE DEF Event, Fault, Quiet
<1>1. CASE UNCHANGED vars
  BY <1>1 DEF vars, AuditInv
<1>2. ASSUME NEW t \in Tapes, Actor(t) PROVE UNCHANGED <<mounted, unaudited>>
  <2>1. CASE Opening(t) \/ maybe_replay_pool_write(t)
    BY <2>1 DEF Opening, maybe_replay_pool_write
  <2>2. CASE Write(t) \/ WriteRefused(t) \/ Rollover(t) \/ WriteFails(t)
    BY <2>2 DEF Write, WriteRefused, Rollover, WriteFails
  <2>3. CASE Synchronize(t) \/ complete_report(t) \/ project_tape_log(t)
    BY <2>3 DEF Synchronize, complete_report, project_tape_log
  <2>4. CASE decide_live_finalization(t) \/ BarrierDone(t)
    BY <2>4 DEF decide_live_finalization, BarrierDone
  <2>5. CASE Finish(t) \/ End(t) \/ write_closeout(t) \/ publish_closed_out(t)
    BY <2>5 DEF Finish, End, write_closeout, publish_closed_out
  <2> QED BY <1>2, <2>1, <2>2, <2>3, <2>4, <2>5 DEF Actor
<1>3. ASSUME NEW t \in Tapes, Timer(t) PROVE UNCHANGED <<mounted, unaudited>>
  BY <1>3 DEF Timer, TimerCheckpoint, handle_timer_idle_close
<1>4. ASSUME NEW t \in Tapes,
             \/ Open(t) \/ Closeout(t) \/ OpenContradicted(t) \/ supersede_tail(t)
             \/ ReleaseFence(t) \/ scan(t)
      PROVE  UNCHANGED <<mounted, unaudited>>
  BY <1>4 DEF Open, Closeout, Prove, OpenContradicted, supersede_tail, ReleaseFence, scan
<1>5. ASSUME NEW t \in Tapes,
             \/ \E o \in Objects : reserve(t, o)
             \/ handle_checkpoint(t) \/ handle_close(t) \/ handle_abort(t)
      PROVE  UNCHANGED <<mounted, unaudited>>
  BY <1>5 DEF reserve, handle_checkpoint, handle_close, handle_abort
<1>6. ASSUME NEW t \in Tapes, FinishMountedInvocation(t) \/ AuditFails(t)
      PROVE  unaudited' \subseteq mounted'
  BY <1>6 DEF FinishMountedInvocation, AuditFails, AuditInv
<1>7. ASSUME Restart PROVE unaudited' = {}
  BY <1>7 DEF Restart
<1> QED BY <1>1, <1>2, <1>3, <1>4, <1>5, <1>6, <1>7
        DEF Next, Crash, PowerLoss, AuditInv

(* The invariant holds of every behaviour of the write sessions. *)
THEOREM SessionInvariance == Spec => []SessionInv
BY SessionInit, SessionNext, PTL DEF Spec

(* Types: the states of a session, its log and its tape are the ones that   *)
(* the handlers expect, no batch exceeds checkpoint_max_objects, and an     *)
(* object is in one batch of one session at a time (should_checkpoint,      *)
(* WriteAdmissionCoordinator::reserve), whatever the sessions do.           *)
THEOREM SessionTypeCorrect == Spec => []TypeOK
<1>1. SessionInv /\ AuditInv => TypeOK
  <2> SUFFICES ASSUME SessionInv, AuditInv PROVE TypeOK
    OBVIOUS
  <2>1. ASSUME NEW t \in Tapes
        PROVE  /\ log[t].files \in Seq(Objects \cup {"sidecar"}) /\ media[t].files \in Seq(Files)
               /\ log[t].synced \in 0..Len(log[t].tail)
               /\ media[t].synced \in 0..Len(media[t].files)
    <3>1. LogOK(log[t]) /\ MediaOK(media[t])
      BY DEF SessionInv, LocalInv
    <3> QED BY <3>1 DEF LogOK, MediaOK, Logs, Tape
  <2>2. ASSUME NEW t \in Tapes
        PROVE  /\ Len(session[t].batch) <= MaxBatch /\ ToSet(session[t].batch) \subseteq admissions
               /\ timers[t] \subseteq Timers
    BY DEF SessionInv, SessionTypes, LocalInv, StageInv, ClaimInv, Pending
  <2>3. \A t, u \in Tapes : t # u => ToSet(session[t].batch) \cap ToSet(session[u].batch) = {}
    BY DEF SessionInv, ClaimInv, Pending
  <2>4. catalog \cup admissions \cup promised \subseteq Objects /\ fence \subseteq Tapes
    BY DEF SessionInv, SessionTypes
  <2> QED BY <2>1, <2>2, <2>3, <2>4 DEF TypeOK, Timers, AuditInv
<1>2. Init => AuditInv
  BY DEF Init, AuditInv
<1> QED BY <1>1, <1>2, AuditNext, SessionInvariance, PTL DEF Spec

(* An object is committed once, however often and to whichever sessions it  *)
(* is sent, whichever barriers fail and however, and whenever the host      *)
(* restarts, unless a startup left one of the two logs out of the catalog   *)
(* (WriteAdmissionCoordinator, requires_identity_quarantine, the replay).   *)
THEOREM ObjectsCommittedOnce == Spec => []CommittedOnce
<1>1. SessionInv => CommittedOnce
  <2> SUFFICES ASSUME SessionInv, NEW t \in Tapes, NEW u \in Tapes, Twice(t, u),
                      t \notin unread, u \notin unread
               PROVE  FALSE
    BY DEF CommittedOnce
  <2>1. PICK i \in 1..Committed(t), j \in 1..Committed(u) :
           /\ <<t, i>> # <<u, j>> /\ log[t].files[i] = log[u].files[j]
           /\ log[t].files[i] \in Objects
    BY DEF Twice
  <2>2. CASE t = u
    <3>1. Once(log[t])
      BY DEF SessionInv, LocalInv, OwnInv
    <3> QED BY <2>1, <2>2, <3>1 DEF Once, Committed
  <2>3. CASE t # u
    <3>1. /\ log[t].files \in Seq(Objects \cup {"sidecar"})
          /\ log[u].files \in Seq(Objects \cup {"sidecar"})
      BY DEF SessionInv, SessionTypes, Logs
    <3>2. /\ log[t].files[i] \in ToSet(log[t].files)
          /\ log[u].files[j] \in ToSet(log[u].files)
      BY <3>1, ToSetElements DEF Committed
    <3> QED BY <2>1, <2>3, <3>2 DEF SessionInv, ClaimInv, ObjectsOf
  <2> QED BY <2>2, <2>3
<1> QED BY <1>1, SessionInvariance, PTL

(* What a client was told holds: an object called checkpointed is in a log  *)
(* and each tape holds what its log says behind a barrier, an object that   *)
(* failed is not in the log, and one called written is in the batch or the  *)
(* log of a sound session (handle_append_finish, perform_checkpoint_barrier,*)
(* retain_checkpoint_outcome).                                              *)
THEOREM AnswersAreTrue == Spec => []AnswersHold
<1>1. SessionInv => AnswersHold
  <2> SUFFICES ASSUME SessionInv PROVE AnswersHold
    OBVIOUS
  <2>1. \A o \in promised : \E t \in Tapes : o \in ToSet(log[t].files)
    BY DEF SessionInv, LoggedInv
  <2>2. ASSUME NEW t \in Tapes
        PROVE  media[t].synced >= Committed(t) /\ Cut(media[t].files, Committed(t)) = log[t].files
    <3> DEFINE q == log[t].files
               r == media[t].files
               n == Len(q)
    <3>1. /\ q \in Seq(Objects \cup {"sidecar"}) /\ r \in Seq(Files)
          /\ n <= media[t].synced /\ n <= Len(r) /\ \A i \in 1..n : r[i] = q[i]
          /\ media[t].synced \in Nat
      BY DEF SessionInv, LocalInv, LogOK, Logs, MediaOK, Tape, TapeInv, Kept, Starts
    <3>2. n \in 0..Len(r) /\ q \in Seq(Files)
      <4>1. Objects \cup {"sidecar"} \subseteq Files
        BY DEF Files
      <4> HIDE DEF q, r
      <4> QED BY <3>1, <4>1
    <3> HIDE DEF q, r
    <3>3. /\ Cut(r, n) \in Seq(Files) /\ Len(Cut(r, n)) = n
          /\ \A i \in 1..n : Cut(r, n)[i] = r[i]
      BY <3>1, <3>2, CutOK
    <3> DEFINE c == Cut(r, n)
    <3> HIDE DEF c
    <3>4. c = q
      <4>1. c \in Seq(Files) /\ Len(c) = Len(q) /\ \A i \in 1..Len(q) : c[i] = q[i]
        BY <3>1, <3>3 DEF c
      <4> QED BY <3>2, <4>1
    <3> QED BY <3>1, <3>4 DEF c, q, r, Committed
  <2>3. ASSUME NEW t \in Tapes
        PROVE  session[t].receipts \subseteq promised \cup ToSet(log[t].files)
    BY DEF SessionInv, LocalInv, ToldInv
  <2>4. ASSUME NEW t \in Tapes, NEW o \in Objects
        PROVE  /\ told[t][o] = "failed" => o \notin ToSet(log[t].files)
               /\ /\ told[t][o] = "written"
                  /\ log[t].open /\ ~session[t].poisoned /\ ~At(t, "closed")
                  => o \in ToSet(session[t].batch \o log[t].files)
    <3>1. /\ told[t][o] = "failed" => o \notin ToSet(log[t].files)
          /\ /\ told[t][o] = "written"
             /\ log[t].open /\ ~session[t].poisoned /\ session[t].pc # "closed"
             => o \in ToSet(session[t].batch) \cup ToSet(log[t].files)
      BY DEF SessionInv, LocalInv, ToldInv
    <3> DEFINE S == Objects \cup {"sidecar"}
               b == session[t].batch
               q == log[t].files
    <3>2. b \in Seq(S) /\ q \in Seq(S)
      BY DEF SessionInv, SessionTypes, Sessions, Logs
    <3> HIDE DEF S, b, q
    <3>3. ToSet(b \o q) = ToSet(b) \cup ToSet(q)
      BY <3>2, ToSetConcat
    <3> QED BY <3>1, <3>3 DEF At, b, q
  <2> QED BY <2>1, <2>2, <2>3, <2>4 DEF AnswersHold
<1> QED BY <1>1, SessionInvariance, PTL

--------------------------------------------------------------------------------
(* The tail behind a log.  An ended session is admitted again because at    *)
(* each step of a session its evidence, or the record of its ending, names  *)
(* what a drive may still present.                                          *)

(* What a tape may hold of the named files: all of the first k and any      *)
(* number of the others, the last of which may have been cut short.         *)
Within(x, names, k) ==
    /\ Len(x) \in k..Len(names)
    /\ \A i \in 1..Len(x) : \/ x[i] = names[i]
                            \/ i = Len(x) /\ i > k /\ x[i] = Torn(names[i])

(* The sidecar that is due, whole or in part. *)
Half == {<<"sidecar">>, <<"half">>}
Covered(x, due, names, k) == Within(x, names, k) \/ (due /\ x \in Half)

(* The tape behind the c files of its log: the named files; or those over a *)
(* tail that was proved, and may come back; or a closeout, over the named   *)
(* files or an earlier closeout; or the proved tail, untouched.             *)
Named(c, m, names, k) ==
    m.under = <<>> /\ k <= m.synced - c /\ Within(Behind(m.files, c), names, k)
OverProved(c, m, names, k) ==
    /\ k = 0 /\ m.synced = c /\ Within(Behind(m.files, c), names, k)
    /\ Len(m.files) > c => m.files[c + 1] \notin {"sidecar", "half"}
ClosingOut(c, m, names, k) ==
    /\ Behind(m.files, c) \in Half
    /\ \/ m.synced = Len(m.files)
       \/ m.synced = c /\ Covered(m.under, TRUE, names, k)
Proved(m) == m.stale /\ m.synced = Len(m.files) /\ m.under = <<>>

Accounted(c, due, m, names, k) ==
    \/ Named(c, m, names, k)
    \/ ~due /\ OverProved(c, m, names, k)
    \/ due /\ ClosingOut(c, m, names, k)
    \/ ~due /\ Proved(m)

Ends(l, m, s) == Accounted(Len(l.files), l.due, m, s.tail.names, s.tail.synced)

(* The tail of a tape in each step of a session. *)
TailInv(l, m, s) ==
    /\ ~l.open => Accounted(Len(l.files), l.due, m, l.tail, l.synced)
    /\ s.pc \in Appending \cup Committing \cup {"finish", "end"} => l.open
    /\ l.doubt => s.pc \in {"closed", "finish", "end"}
    /\ s.pc = "finish" /\ l.doubt => s.poisoned
    /\ s.pc \in Appending \cup {"opening"} /\ s.tail.names = <<>> =>
          /\ m.synced = Len(m.files) /\ m.under = <<>>
          /\ Len(m.files) = Len(l.files) \/ (m.stale /\ ~l.due)
    /\ s.pc \in Appending /\ s.tail.names # <<>> =>
          /\ Len(m.files) = Len(l.files) + Len(s.tail.names)
          /\ m.under = <<>> \/ (m.synced = Len(l.files) /\ ~l.due)
    /\ s.pc \in Appending \ {"commit"} => s.tail.synced = 0
    /\ s.pc \in {"sync", "commit"} => s.batch # <<>>
    /\ s.pc \in Committing =>
          m.under = <<>> /\ m.synced = Len(m.files) /\ Len(m.files) = Len(l.files)
    /\ s.pc \in {"finish", "end"} /\ ~l.doubt => Ends(l, m, s)
    /\ s.pc \in {"closeout", "publish"} => l.due
    /\ s.pc = "publish" => Len(m.files) = Len(l.files) + 1
    /\ s.pc \in {"closeout", "publish"} /\ s.after = "end" => l.open /\ Ends(l, m, s)
    /\ s.pc = "closeout" /\ s.after = "end" => s.tail.names = <<>>
TailsInv == \A t \in Tapes : TailInv(log[t], media[t], session[t])

--------------------------------------------------------------------------------
(* What a drive may keep of the named files, and what it may present again. *)

LEMMA BehindIs ==
    ASSUME NEW S, NEW q \in Seq(S), NEW n \in 0..Len(q)
    PROVE  /\ Behind(q, n) \in Seq(S) /\ Len(Behind(q, n)) = Len(q) - n
           /\ \A i \in 1..Len(q) - n : Behind(q, n)[i] = q[n + i]
BY DEF Behind

LEMMA HalfIs ==
    ASSUME NEW x \in Seq(Files)
    PROVE  x \in Half <=> Len(x) = 1 /\ x[1] \in {"sidecar", "half"}
<1>1. ASSUME Len(x) = 1 PROVE x = <<x[1]>>
  BY <1>1
<1>2. ASSUME x = <<"sidecar">> \/ x = <<"half">>
      PROVE  Len(x) = 1 /\ x[1] \in {"sidecar", "half"}
  BY <1>2
<1> QED BY <1>1, <1>2 DEF Half

LEMMA TornTwice == \A f : Torn(Torn(f)) = Torn(f)
BY DEF Torn

(* Part of what a tape holds of the named files, when it has the first k. *)
LEMMA WithinPart ==
    ASSUME NEW x \in Seq(Files), NEW y \in Seq(Files), NEW names \in Seq(Files), NEW k \in Nat,
           Within(x, names, k), k <= Len(y), Len(y) <= Len(x),
           \A i \in 1..Len(y) : \/ y[i] = x[i]
                                \/ i = Len(y) /\ i > k /\ y[i] = Torn(x[i])
    PROVE  Within(y, names, k)
<1>1. Len(y) \in Nat /\ Len(x) \in Nat /\ Len(names) \in Nat
  OBVIOUS
<1>2. Len(x) \in k..Len(names)
  BY DEF Within
<1>3. Len(y) \in k..Len(names)
  BY <1>1, <1>2
<1>4. ASSUME NEW i \in 1..Len(y)
      PROVE  y[i] = names[i] \/ (i = Len(y) /\ i > k /\ y[i] = Torn(names[i]))
  <2>1. i \in 1..Len(x) /\ (i = Len(x) => i = Len(y))
    BY <1>1
  <2>2. x[i] = names[i] \/ (i = Len(x) /\ i > k /\ x[i] = Torn(names[i]))
    BY <2>1 DEF Within
  <2>3. CASE y[i] = x[i]
    BY <2>1, <2>2, <2>3
  <2>4. CASE i = Len(y) /\ i > k /\ y[i] = Torn(x[i])
    BY <2>2, <2>4, TornTwice
  <2> QED BY <2>3, <2>4
<1> QED BY <1>3, <1>4 DEF Within

(* What a drive that fails keeps. *)
LEMMA RemainsParts ==
    ASSUME NEW m, MediaOK(m), NEW g \in Remains(m), m.synced # Len(m.files)
    PROVE  /\ g.under = <<>> /\ g.synced = Len(g.files)
           /\ \/ /\ Len(g.files) = m.synced + Len(m.under)
                 /\ \A i \in 1..m.synced : g.files[i] = m.files[i]
                 /\ \A i \in 1..Len(m.under) : g.files[m.synced + i] = m.under[i]
                 /\ g.stale = (m.under # <<>> /\ m.files[m.synced + 1] \notin {"sidecar", "half"})
              \/ \E n \in m.synced + 1..Len(m.files) :
                    /\ Len(g.files) = n /\ \A i \in 1..n - 1 : g.files[i] = m.files[i]
                    /\ g.files[n] \in {m.files[n], Torn(m.files[n])}
<1>1. /\ m \in Tape /\ m.files \in Seq(Files) /\ m.synced \in 0..Len(m.files)
      /\ m.under \in Seq(Files)
  BY DEF MediaOK, Tape
<1> DEFINE Left(files, stale) ==
               [files |-> files, synced |-> Len(files), under |-> <<>>, stale |-> stale]
           b == m.under # <<>> /\ m.files[m.synced + 1] \notin {"sidecar", "half"}
           c == Cut(m.files, m.synced)
<1>2. \/ g = Left(c \o m.under, b)
      \/ \E n \in m.synced + 1..Len(m.files) : g = Left(Cut(m.files, n), FALSE)
      \/ \E n \in m.synced + 1..Len(m.files) :
             g = Left(Append(Cut(m.files, n - 1), Torn(m.files[n])), FALSE)
  BY DEF Remains
<1>3. ASSUME NEW q, NEW x, g = Left(q, x)
      PROVE  g.files = q /\ g.synced = Len(g.files) /\ g.under = <<>> /\ g.stale = x
  BY <1>3
<1> HIDE DEF Left
<1>4. CASE g = Left(c \o m.under, b)
  <2>1. c \in Seq(Files) /\ Len(c) = m.synced /\ \A i \in 1..m.synced : c[i] = m.files[i]
    BY <1>1, CutOK
  <2> HIDE DEF c, b
  <2>2. /\ Len(c \o m.under) = m.synced + Len(m.under)
        /\ \A i \in 1..m.synced : (c \o m.under)[i] = m.files[i]
        /\ \A i \in 1..Len(m.under) : (c \o m.under)[m.synced + i] = m.under[i]
    BY <1>1, <2>1, ToSetConcat
  <2>3. g.files = c \o m.under /\ g.synced = Len(g.files) /\ g.under = <<>> /\ g.stale = b
    BY <1>3, <1>4
  <2> QED BY <2>2, <2>3 DEF b
<1>5. ASSUME NEW n \in m.synced + 1..Len(m.files), g = Left(Cut(m.files, n), FALSE)
      PROVE  /\ g.under = <<>> /\ g.synced = Len(g.files) /\ Len(g.files) = n
             /\ \A i \in 1..n - 1 : g.files[i] = m.files[i]
             /\ g.files[n] = m.files[n]
  <2>1. n \in 0..Len(m.files) /\ n \in 1..n /\ \A i \in 1..n - 1 : i \in 1..n
    BY <1>1
  <2>2. Len(Cut(m.files, n)) = n /\ \A i \in 1..n : Cut(m.files, n)[i] = m.files[i]
    BY <1>1, <2>1, CutOK
  <2>3. g.files = Cut(m.files, n) /\ g.synced = Len(g.files) /\ g.under = <<>>
    BY <1>3, <1>5
  <2> QED BY <2>1, <2>2, <2>3
<1>6. ASSUME NEW n \in m.synced + 1..Len(m.files),
             g = Left(Append(Cut(m.files, n - 1), Torn(m.files[n])), FALSE)
      PROVE  /\ g.under = <<>> /\ g.synced = Len(g.files) /\ Len(g.files) = n
             /\ \A i \in 1..n - 1 : g.files[i] = m.files[i]
             /\ g.files[n] = Torn(m.files[n])
  <2> DEFINE d == Cut(m.files, n - 1)
             x == Torn(m.files[n])
  <2>1. n - 1 \in 0..Len(m.files)
    BY <1>1
  <2>2. d \in Seq(Files) /\ Len(d) = n - 1 /\ \A i \in 1..n - 1 : d[i] = m.files[i]
    BY <1>1, <2>1, CutOK
  <2> HIDE DEF d, x
  <2>3. /\ Len(Append(d, x)) = n /\ \A i \in 1..n - 1 : Append(d, x)[i] = m.files[i]
        /\ Append(d, x)[n] = x
    BY <1>1, <2>1, <2>2
  <2> QED BY <1>3, <1>6, <2>3 DEF d, x
<1> QED BY <1>2, <1>4, <1>5, <1>6

(* Named files remain named files when the tape loses the last of them. *)
LEMMA NamedPart ==
    ASSUME NEW m, MediaOK(m), NEW g, MediaOK(g), NEW c \in Nat, c <= m.synced,
           NEW names \in Seq(Files), NEW k \in Nat, Within(Behind(m.files, c), names, k),
           NEW n \in Nat, c + k <= n, n <= Len(m.files), Len(g.files) = n,
           \A i \in 1..n - 1 : g.files[i] = m.files[i],
           n > c => \/ g.files[n] = m.files[n]
                    \/ n > c + k /\ g.files[n] = Torn(m.files[n])
    PROVE  Within(Behind(g.files, c), names, k)
<1> DEFINE x == Behind(m.files, c)
           y == Behind(g.files, c)
<1>1. /\ m.files \in Seq(Files) /\ g.files \in Seq(Files) /\ m.synced <= Len(m.files)
      /\ Len(m.files) \in Nat /\ Len(g.files) \in Nat /\ m.synced \in Nat
  BY DEF MediaOK, Tape
<1>2. c \in 0..Len(m.files) /\ c \in 0..Len(g.files)
  BY <1>1
<1>3. /\ x \in Seq(Files) /\ Len(x) = Len(m.files) - c
      /\ \A i \in 1..Len(m.files) - c : x[i] = m.files[c + i]
  BY <1>1, <1>2, BehindIs
<1>4. /\ y \in Seq(Files) /\ Len(y) = n - c
      /\ \A i \in 1..n - c : y[i] = g.files[c + i]
  BY <1>1, <1>2, BehindIs
<1> HIDE DEF x, y
<1>5. ASSUME NEW i \in 1..Len(y)
      PROVE  y[i] = x[i] \/ (i = Len(y) /\ i > k /\ y[i] = Torn(x[i]))
  <2>0. i \in Nat /\ 1 <= i /\ i <= n - c /\ Len(y) = n - c
    BY <1>1, <1>4
  <2>1. /\ i \in 1..n - c /\ i \in 1..Len(m.files) - c /\ c + i \in 1..n
        /\ c + i # n => c + i \in 1..n - 1
        /\ c + i = n => i = Len(y) /\ n > c /\ (n > c + k => i > k)
    BY <1>1, <2>0
  <2>2. y[i] = g.files[c + i] /\ x[i] = m.files[c + i]
    BY <1>3, <1>4, <2>1
  <2> QED BY <2>1, <2>2
<1>6. k <= Len(y) /\ Len(y) <= Len(x)
  BY <1>1, <1>3, <1>4
<1>7. Within(x, names, k)
  BY DEF x
<1>8. Within(y, names, k)
  BY <1>3, <1>4, <1>5, <1>6, <1>7, WithinPart
<1> QED BY <1>8 DEF y

LEMMA HalfBehind ==
    ASSUME NEW m, MediaOK(m), NEW c \in Nat, c <= Len(m.files)
    PROVE  Behind(m.files, c) \in Half
              <=> Len(m.files) = c + 1 /\ m.files[c + 1] \in {"sidecar", "half"}
<1> DEFINE x == Behind(m.files, c)
<1>1. m.files \in Seq(Files) /\ Len(m.files) \in Nat /\ c \in 0..Len(m.files)
  BY DEF MediaOK, Tape
<1>2. /\ x \in Seq(Files) /\ Len(x) = Len(m.files) - c
      /\ \A i \in 1..Len(m.files) - c : x[i] = m.files[c + i]
  BY <1>1, BehindIs
<1> HIDE DEF x
<1>3. x \in Half <=> Len(x) = 1 /\ x[1] \in {"sidecar", "half"}
  BY <1>2, HalfIs
<1>4. Len(x) = 1 <=> Len(m.files) = c + 1
  BY <1>1, <1>2
<1>5. ASSUME Len(x) = 1 PROVE x[1] = m.files[c + 1]
  <2>1. Len(m.files) - c = 1
    BY <1>2, <1>5
  <2> QED BY <1>2, <2>1
<1> QED BY <1>3, <1>4, <1>5 DEF x

(* The tape holds nothing behind its log. *)
LEMMA NothingBehind ==
    ASSUME NEW m, MediaOK(m), NEW c \in Nat, Len(m.files) = c, NEW names \in Seq(Files)
    PROVE  Within(Behind(m.files, c), names, 0)
<1>1. m.files \in Seq(Files) /\ c \in 0..Len(m.files)
  BY DEF MediaOK, Tape
<1>2. Len(Behind(m.files, c)) = Len(m.files) - c
  BY <1>1, BehindIs
<1>3. Len(Behind(m.files, c)) = 0 /\ Len(names) \in Nat
  BY <1>2
<1> QED BY <1>3 DEF Within

(* A drive that fails leaves a tail that is accounted for. *)
LEMMA RemainsAccounted ==
    ASSUME NEW m, MediaOK(m), NEW g \in Remains(m), NEW c \in Nat, c <= m.synced,
           NEW names \in Seq(Files), NEW k \in Nat, NEW due \in BOOLEAN,
           Accounted(c, due, m, names, k)
    PROVE  Accounted(c, due, g, names, k)
<1>1. /\ m.files \in Seq(Files) /\ m.under \in Seq(Files) /\ Len(m.files) \in Nat
      /\ Len(m.under) \in Nat /\ m.synced \in Nat /\ m.synced <= Len(m.files)
  BY DEF MediaOK, Tape
<1>2. CASE m.synced = Len(m.files)
  <2>1. g = m
    BY <1>2 DEF Remains
  <2> QED BY <2>1
<1>3. CASE m.synced # Len(m.files)
  <2>1. /\ MediaOK(g) /\ g.under = <<>> /\ g.synced = Len(g.files)
        /\ g.files \in Seq(Files) /\ Len(g.files) \in Nat
    BY <1>3, RemainsOK, RemainsParts DEF MediaOK, Tape
  <2>2. ASSUME NEW n \in m.synced + 1..Len(m.files), Len(g.files) = n,
               \A i \in 1..n - 1 : g.files[i] = m.files[i],
               g.files[n] \in {m.files[n], Torn(m.files[n])}
        PROVE  Accounted(c, due, g, names, k)
    <3>1. n \in Nat /\ m.synced < n /\ n <= Len(m.files)
      BY <1>1
    <3>2. ASSUME k <= m.synced - c, Within(Behind(m.files, c), names, k)
          PROVE  Named(c, g, names, k)
      <4>1. c + k <= n /\ n > c + k /\ k <= n - c
        BY <1>1, <3>1, <3>2
      <4>2. Within(Behind(g.files, c), names, k)
        BY <2>1, <2>2, <3>1, <3>2, <4>1, NamedPart
      <4> QED BY <2>1, <2>2, <4>1, <4>2 DEF Named
    <3>3. ASSUME Behind(m.files, c) \in Half PROVE ClosingOut(c, g, names, k)
      <4>1. Len(m.files) = c + 1 /\ m.files[c + 1] \in {"sidecar", "half"}
        BY <1>1, <3>3, HalfBehind
      <4>2. n = c + 1 /\ c <= n
        BY <1>1, <3>1, <4>1
      <4>3. g.files[c + 1] \in {"sidecar", "half"}
        BY <2>2, <4>1, <4>2 DEF Torn
      <4>4. Behind(g.files, c) \in Half
        BY <2>1, <2>2, <4>2, <4>3, HalfBehind
      <4> QED BY <2>1, <4>4 DEF ClosingOut
    <3>4. k = 0 /\ m.synced = c => k <= m.synced - c
      BY <1>1
    <3> QED BY <1>3, <3>2, <3>3, <3>4 DEF Accounted, Named, OverProved, ClosingOut, Proved
  <2>3. ASSUME Len(g.files) = m.synced + Len(m.under),
               \A i \in 1..m.synced : g.files[i] = m.files[i],
               \A i \in 1..Len(m.under) : g.files[m.synced + i] = m.under[i],
               g.stale = (m.under # <<>> /\ m.files[m.synced + 1] \notin {"sidecar", "half"})
        PROVE  Accounted(c, due, g, names, k)
    <3>1. ASSUME m.under = <<>>, k <= m.synced - c, Within(Behind(m.files, c), names, k)
          PROVE  Named(c, g, names, k)
      <4> DEFINE n == m.synced
      <4>1. /\ n \in Nat /\ c + k <= n /\ n <= Len(m.files) /\ Len(g.files) = n /\ k <= n - c
            /\ \A i \in 1..n - 1 : i \in 1..n
            /\ n > c => n \in 1..n
        BY <1>1, <2>3, <3>1
      <4>2. /\ \A i \in 1..n - 1 : g.files[i] = m.files[i]
            /\ n > c => g.files[n] = m.files[n]
        BY <2>3, <4>1
      <4>3. Within(Behind(g.files, c), names, k)
        BY <2>1, <3>1, <4>1, <4>2, NamedPart
      <4> QED BY <2>1, <4>1, <4>3 DEF Named
    <3>2. ASSUME OverProved(c, m, names, k), ~due PROVE Accounted(c, due, g, names, k)
      <4>1. k <= m.synced - c /\ Within(Behind(m.files, c), names, k) /\ Len(m.files) > c
            /\ m.synced = c
        BY <1>1, <1>3, <3>2 DEF OverProved
      <4>2. CASE m.under = <<>>
        BY <3>1, <4>1, <4>2 DEF Accounted
      <4>3. CASE m.under # <<>>
        <5>1. m.files[m.synced + 1] \notin {"sidecar", "half"}
          BY <3>2, <4>1 DEF OverProved
        <5>2. g.stale
          BY <2>3, <4>3, <5>1
        <5> QED BY <2>1, <3>2, <5>2 DEF Accounted, Proved
      <4> QED BY <4>2, <4>3
    <3>3. ASSUME ClosingOut(c, m, names, k), due PROVE Accounted(c, due, g, names, k)
      <4> DEFINE y == Behind(g.files, c)
      <4>1. m.synced = c /\ Covered(m.under, TRUE, names, k)
        BY <1>3, <3>3 DEF ClosingOut
      <4>2. Len(g.files) = c + Len(m.under) /\ c \in 0..Len(g.files) /\ c <= Len(g.files)
        BY <1>1, <2>3, <4>1
      <4>3. /\ y \in Seq(Files) /\ Len(y) = Len(m.under)
            /\ \A i \in 1..Len(m.under) : y[i] = m.under[i]
        <5>1. /\ y \in Seq(Files) /\ Len(y) = Len(g.files) - c
              /\ \A i \in 1..Len(g.files) - c : y[i] = g.files[c + i]
          BY <2>1, <4>2, BehindIs
        <5>2. Len(g.files) - c = Len(m.under)
          BY <1>1, <4>2
        <5> QED BY <2>3, <4>1, <5>1, <5>2
      <4> HIDE DEF y
      <4>4. CASE Within(m.under, names, k)
        <5>1. k <= Len(y) /\ Len(y) <= Len(m.under) /\ \A i \in 1..Len(y) : y[i] = m.under[i]
          BY <1>1, <4>3, <4>4 DEF Within
        <5>2. Within(y, names, k)
          BY <1>1, <4>3, <4>4, <5>1, WithinPart
        <5>3. k <= g.synced - c
          BY <1>1, <2>1, <4>2, <4>3, <5>1
        <5> QED BY <2>1, <5>2, <5>3 DEF Accounted, Named, y
      <4>5. CASE m.under \in Half
        <5>1. Len(m.under) = 1 /\ m.under[1] \in {"sidecar", "half"}
          BY <1>1, <4>5, HalfIs
        <5>2. y \in Half
          BY <4>3, <5>1, HalfIs
        <5> QED BY <2>1, <3>3, <5>2 DEF Accounted, ClosingOut, y
      <4> QED BY <4>1, <4>4, <4>5 DEF Covered
    <3> QED BY <1>3, <3>1, <3>2, <3>3 DEF Accounted, Named, Proved
  <2> QED BY <1>3, <2>2, <2>3, RemainsParts
<1> QED BY <1>2, <1>3

(* So does a barrier. *)
LEMMA SyncedAccounted ==
    ASSUME NEW m, MediaOK(m), NEW c \in Nat, c <= m.synced,
           NEW names \in Seq(Files), NEW k \in Nat, NEW due \in BOOLEAN,
           Accounted(c, due, m, names, k),
           NEW g, g.files = m.files, g.synced = Len(m.files), g.under = <<>>, g.stale = m.stale
    PROVE  Accounted(c, due, g, names, k)
<1>1. m.synced \in Nat /\ m.synced <= Len(m.files) /\ Len(m.files) \in Nat
  BY DEF MediaOK, Tape
<1>2. CASE Named(c, m, names, k) \/ OverProved(c, m, names, k)
  BY <1>1, <1>2 DEF Accounted, Named, OverProved
<1>3. CASE due /\ ClosingOut(c, m, names, k)
  BY <1>3 DEF Accounted, ClosingOut
<1>4. CASE ~due /\ Proved(m)
  BY <1>4 DEF Accounted, Proved
<1> QED BY <1>2, <1>3, <1>4 DEF Accounted

(* A closeout that is due may replace any tail that is accounted for. *)
LEMMA CloseoutAccounted ==
    ASSUME NEW m, MediaOK(m), NEW c \in Nat, c <= m.synced,
           NEW names \in Seq(Files), NEW k \in Nat, Accounted(c, TRUE, m, names, k),
           NEW f \in {"sidecar", "half"}, NEW g, g = Overwritten(Synced(m), c, f)
    PROVE  Accounted(c, TRUE, g, names, k) /\ Len(g.files) = c + 1
<1> DEFINE y == Synced(m)
           x == Behind(m.files, c)
<1>1. /\ m.synced \in Nat /\ m.synced <= Len(m.files) /\ Len(m.files) \in Nat
      /\ m.files \in Seq(Files) /\ m \in Tape /\ c \in 0..Len(m.files) /\ f \in Files
  BY DEF MediaOK, Tape, Files
<1>2. MediaOK(y) /\ y.files = m.files /\ y.synced = Len(m.files) /\ y.under = <<>>
  <2>1. y.under = <<>>
    BY <1>1 DEF Synced, Tape
  <2> QED BY <2>1, SyncedOK
<1> HIDE DEF y
<1>3. /\ MediaOK(g) /\ Len(g.files) = c + 1 /\ g.files[c + 1] = f
  <2>1. g = Overwritten(y, c, f)
    BY DEF y
  <2> QED BY <1>1, <1>2, <2>1, OverwrittenOK
<1>4. /\ g.synced = IF c < Len(m.files) THEN c ELSE Len(m.files)
      /\ g.under = IF c < Len(m.files) THEN SubSeq(m.files, c + 1, Len(m.files)) ELSE <<>>
  <2>1. g = Overwritten(y, c, f) /\ y \in Tape
    BY <1>2 DEF y, MediaOK
  <2> DEFINE r == Append(Cut(y.files, c), f)
             n == IF c < y.synced THEN c ELSE y.synced
             u == IF c < y.synced THEN SubSeq(y.files, c + 1, y.synced) ELSE y.under
  <2>2. g = [y EXCEPT !.files = r, !.stale = FALSE, !.synced = n, !.under = u]
    BY <2>1 DEF Overwritten
  <2> HIDE DEF r, n, u
  <2>3. g.synced = n /\ g.under = u
    BY <2>1, <2>2 DEF Tape
  <2> QED BY <1>2, <2>3 DEF n, u
<1>5. g.synced = c
  BY <1>1, <1>4
<1>6. g.under = x
  <2>1. CASE c < Len(m.files)
    BY <1>4, <2>1 DEF Behind
  <2>2. CASE ~(c < Len(m.files))
    <3>1. x = <<>>
      BY <1>1, <2>2 DEF Behind
    <3> QED BY <1>4, <2>2, <3>1
  <2> QED BY <2>1, <2>2
<1>7. Covered(x, TRUE, names, k)
  BY DEF Accounted, Named, ClosingOut, Covered, Half
<1>8. Behind(g.files, c) \in Half
  <2>1. c <= Len(g.files)
    BY <1>3
  <2> QED BY <1>3, <2>1, HalfBehind
<1> QED BY <1>3, <1>5, <1>6, <1>7, <1>8 DEF Accounted, ClosingOut

(* What is accounted for, and not an earlier session's, is admitted. *)
LEMMA AccountedAdmitted ==
    ASSUME NEW t \in Tapes, SessionInv, ~log[t].open, ~media[t].stale,
           Accounted(Len(log[t].files), log[t].due, media[t], log[t].tail, log[t].synced)
    PROVE  Admitted(t)
<1>1. \/ Within(Suffix(t), log[t].tail, log[t].synced)
      \/ log[t].due /\ Suffix(t) \in Half
  BY DEF Accounted, Named, OverProved, ClosingOut, Proved, Suffix, Committed
<1> QED BY <1>1 DEF Admitted, own_closeout, named_tail, Within, Half

--------------------------------------------------------------------------------
(* The tail in each step. *)

LEMMA TailFacts ==
    ASSUME SessionInv, TailsInv, NEW t \in Tapes
    PROVE  /\ TailInv(log[t], media[t], session[t])
           /\ log[t] \in Logs /\ media[t] \in Tape /\ session[t] \in Sessions
           /\ LogOK(log[t]) /\ MediaOK(media[t]) /\ SessionOK(session[t])
           /\ StageInv(session[t]) /\ TapeInv(log[t], media[t], session[t])
           /\ Len(log[t].files) \in Nat /\ Len(log[t].files) <= media[t].synced
           /\ media[t].synced \in Nat /\ Len(media[t].files) \in Nat
           /\ media[t].synced <= Len(media[t].files)
           /\ session[t].tail \in Evidence /\ session[t].tail.names \in Seq(Files)
           /\ session[t].tail.synced \in Nat
           /\ session[t].tail.synced <= Len(session[t].tail.names)
           /\ log[t].tail \in Seq(Files) /\ log[t].synced \in Nat
           /\ log[t].due \in BOOLEAN /\ log[t].open \in BOOLEAN /\ log[t].doubt \in BOOLEAN
           /\ log = [log EXCEPT ![t] = log[t]] /\ media = [media EXCEPT ![t] = media[t]]
           /\ session = [session EXCEPT ![t] = session[t]]
<1>1. /\ LocalInv(log[t], media[t], session[t], told[t], catalog, promised)
      /\ log[t] \in Logs /\ media[t] \in Tape /\ session[t] \in Sessions
      /\ log = [log EXCEPT ![t] = log[t]] /\ media = [media EXCEPT ![t] = media[t]]
      /\ session = [session EXCEPT ![t] = session[t]]
  BY Facts
<1>2. TailInv(log[t], media[t], session[t])
  BY DEF TailsInv
<1>3. /\ LogOK(log[t]) /\ MediaOK(media[t]) /\ SessionOK(session[t])
      /\ StageInv(session[t]) /\ TapeInv(log[t], media[t], session[t])
      /\ Len(log[t].files) <= media[t].synced
  BY <1>1 DEF LocalInv, TapeInv, Kept
<1>4. /\ log[t].tail \in Seq(Files) /\ log[t].synced \in Nat /\ Len(log[t].files) \in Nat
      /\ log[t].due \in BOOLEAN /\ log[t].open \in BOOLEAN /\ log[t].doubt \in BOOLEAN
  BY <1>1 DEF Logs
<1>5. /\ media[t].synced \in Nat /\ Len(media[t].files) \in Nat
      /\ media[t].synced <= Len(media[t].files)
  BY <1>1, <1>3 DEF Tape, MediaOK
<1>6. session[t].tail \in Evidence /\ session[t].tail.synced <= Len(session[t].tail.names)
  BY <1>1, <1>3 DEF SessionOK, Sessions
<1>7. session[t].tail.names \in Seq(Files) /\ session[t].tail.synced \in Nat
  BY <1>6 DEF Evidence
<1> QED BY <1>1, <1>2, <1>3, <1>4, <1>5, <1>6, <1>7

(* A step of the tape t. *)
LEMMA TailStep ==
    ASSUME SessionInv, TailsInv, NEW t \in Tapes, NEW l, NEW m, NEW s,
           log' = [log EXCEPT ![t] = l], media' = [media EXCEPT ![t] = m],
           session' = [session EXCEPT ![t] = s], TailInv(l, m, s)
    PROVE  TailsInv'
<1>1. /\ log'[t] = l /\ media'[t] = m /\ session'[t] = s
      /\ \A u \in Tapes \ {t} : log'[u] = log[u] /\ media'[u] = media[u] /\ session'[u] = session[u]
  BY DEF SessionInv, SessionTypes
<1>2. \A u \in Tapes : TailInv(log'[u], media'[u], session'[u])
  BY <1>1 DEF TailsInv
<1> QED BY <1>2 DEF TailsInv, TailInv, Accounted, Named, OverProved, ClosingOut, Proved, Ends,
                    Within, Covered

LEMMA BehindEquals ==
    ASSUME NEW q \in Seq(Files), NEW c \in Nat, NEW b \in Seq(Files), Len(q) = c + Len(b),
           \A i \in 1..Len(b) : q[c + i] = b[i]
    PROVE  Len(Behind(q, c)) = Len(b) /\ \A i \in 1..Len(b) : Behind(q, c)[i] = b[i]
<1> DEFINE n == Len(q)
           x == Behind(q, c)
<1>1. n \in Nat /\ Len(b) \in Nat /\ c \in 0..n /\ n - c = Len(b)
  OBVIOUS
<1>2. Len(x) = n - c
  BY <1>1, BehindIs
<1>3. \A i \in 1..n - c : x[i] = q[c + i]
  BY <1>1, BehindIs
<1> HIDE DEF x, n
<1>4. Len(x) = Len(b) /\ \A i \in 1..Len(b) : x[i] = b[i]
  BY <1>1, <1>2, <1>3
<1> QED BY <1>4 DEF x

(* Dispatched files, the last of which may have been cut short. *)
Holds(m, c, b, names) == \A i \in 1..Len(names) : m.files[c + i] = b[i]
PartOf(b, names, k) ==
    \A i \in 1..Len(names) : \/ b[i] = names[i]
                             \/ i = Len(names) /\ i > k /\ b[i] = Torn(names[i])

LEMMA DispatchedAccounted ==
    ASSUME NEW m, MediaOK(m), NEW c \in Nat, c <= m.synced, NEW names \in Seq(Files),
           NEW b \in Seq(Files), NEW k \in Nat, NEW due \in BOOLEAN, names # <<>>,
           Len(b) = Len(names), Len(m.files) = c + Len(names),
           Holds(m, c, b, names), PartOf(b, names, k),
           k <= Len(names), b[1] \notin {"sidecar", "half"},
           (m.under = <<>> /\ k <= m.synced - c) \/ (m.synced = c /\ ~due /\ k = 0)
    PROVE  Accounted(c, due, m, names, k)
<1> DEFINE x == Behind(m.files, c)
<1>1. m.files \in Seq(Files) /\ Len(m.files) = c + Len(b)
      /\ \A i \in 1..Len(b) : m.files[c + i] = b[i]
  BY DEF MediaOK, Tape, Holds
<1>2. Len(x) = Len(b) /\ \A i \in 1..Len(b) : x[i] = b[i]
  BY <1>1, BehindEquals
<1> HIDE DEF x
<1>3. Len(names) \in Nat /\ Len(names) # 0
  OBVIOUS
<1>4. Within(x, names, k)
  BY <1>2, <1>3 DEF Within, PartOf
<1>5. m.files[c + 1] = b[1]
  <2>1. 1 \in 1..Len(names)
    BY <1>3
  <2> QED BY <2>1 DEF Holds
<1> QED BY <1>4, <1>5 DEF Accounted, Named, OverProved, x

(* A tape that ends with its log. *)
LEMMA EmptyAccounted ==
    ASSUME NEW m, MediaOK(m), NEW c \in Nat, m.synced = Len(m.files), m.under = <<>>,
           Len(m.files) = c, NEW names \in Seq(Files), NEW due \in BOOLEAN
    PROVE  Accounted(c, due, m, names, 0)
<1>1. Within(Behind(m.files, c), names, 0)
  BY NothingBehind
<1> QED BY <1>1 DEF Accounted, Named

(* An appending session may end as it is. *)
LEMMA AppendingEnds ==
    ASSUME SessionInv, TailsInv, NEW t \in Tapes, session[t].pc \in Appending
    PROVE  Ends(log[t], media[t], session[t])
<1> DEFINE l == log[t]
           m == media[t]
           s == session[t]
           c == Len(l.files)
           names == s.tail.names
           k == s.tail.synced
<1> SUFFICES Ends(l, m, s)
  OBVIOUS
<1>1. /\ TailInv(l, m, s) /\ TapeInv(l, m, s) /\ MediaOK(m) /\ c \in Nat /\ c <= m.synced
      /\ names \in Seq(Files) /\ k \in Nat /\ k <= Len(names) /\ l.due \in BOOLEAN
      /\ m.synced \in Nat /\ Len(m.files) \in Nat /\ Len(names) \in Nat /\ s.pc \in Appending
  BY TailFacts
<1>2. l \in Logs /\ s \in Sessions
  BY TailFacts
<1> HIDE DEF l, m, s
<1>3. CASE names = <<>>
  <2>1. k = 0
    BY <1>1, <1>3
  <2>2. /\ m.synced = Len(m.files) /\ m.under = <<>>
        /\ Len(m.files) = c \/ (m.stale /\ ~l.due)
    BY <1>1, <1>3 DEF TailInv
  <2>3. CASE Len(m.files) = c
    <3>1. Accounted(c, l.due, m, names, 0)
      BY <1>1, <2>2, <2>3, EmptyAccounted
    <3> QED BY <2>1, <3>1 DEF Ends
  <2>4. CASE m.stale /\ ~l.due
    BY <2>2, <2>4 DEF Ends, Accounted, Proved
  <2> QED BY <2>2, <2>3, <2>4
<1>4. CASE names # <<>>
  <2>1. /\ Len(m.files) = c + Len(names)
        /\ m.under = <<>> \/ (m.synced = c /\ ~l.due)
        /\ s.pc # "commit" => k = 0
        /\ s.pc = "commit" => m.synced = Len(m.files)
        /\ names = s.batch /\ Starts(m, l.files \o s.batch)
    BY <1>1, <1>4 DEF TailInv, TapeInv
  <2>2. names \in Seq(Objects) /\ Len(names) # 0 /\ l.files \in Seq(Files)
    <3>1. Objects \cup {"sidecar"} \subseteq Files
      BY DEF Files
    <3>2. l.files \in Seq(Objects \cup {"sidecar"}) /\ names \in Seq(Objects)
      BY <1>2, <2>1 DEF Logs, Sessions
    <3>3. l.files \in Seq(Files)
      BY <3>1, <3>2
    <3> QED BY <1>4, <3>2, <3>3
  <2> HIDE DEF names, c, k
  <2>3. (m.under = <<>> /\ k <= m.synced - c) \/ (m.synced = c /\ ~l.due /\ k = 0)
    <3>1. CASE s.pc = "commit"
      <4>1. m.synced = c + Len(names) /\ m.synced # c
        BY <1>1, <2>1, <2>2, <3>1
      <4>2. m.under = <<>> /\ m.synced - c = Len(names)
        BY <1>1, <2>1, <4>1
      <4> QED BY <1>1, <4>2
    <3>2. CASE s.pc # "commit"
      <4>1. k <= m.synced - c
        BY <1>1, <2>1, <3>2
      <4> QED BY <2>1, <3>2, <4>1
    <3> QED BY <3>1, <3>2
  <2>4. Holds(m, c, names, names)
    <3> DEFINE d == l.files \o names
    <3>1. /\ Len(d) = c + Len(names)
          /\ \A i \in 1..Len(names) : d[c + i] = names[i]
      BY <1>1, <2>2, ToSetConcat DEF c
    <3>2. \A i \in 1..Len(d) : m.files[i] = d[i]
      BY <2>1 DEF Starts
    <3> HIDE DEF d
    <3>3. \A i \in 1..Len(names) : c + i \in 1..Len(d)
      BY <1>1, <3>1
    <3> QED BY <3>1, <3>2, <3>3 DEF Holds
  <2>5. names[1] \notin {"sidecar", "half"}
    <3>1. 1 \in 1..Len(names)
      BY <1>1, <2>2
    <3>2. names[1] \in Objects
      BY <2>2, <3>1
    <3> QED BY <3>2, SessionAssumption
  <2>6. PartOf(names, names, k)
    BY DEF PartOf
  <2>7. Len(m.files) = c + Len(names)
    BY <2>1
  <2>8. Accounted(c, l.due, m, names, k)
    BY <1>1, <1>4, <2>3, <2>4, <2>5, <2>6, <2>7, DispatchedAccounted
  <2> QED BY <2>8 DEF Ends, names, c, k
<1> QED BY <1>3, <1>4

(* A session that goes on appending, with the tape as it was. *)
LEMMA TailAppends ==
    ASSUME SessionInv, TailsInv, NEW t \in Tapes, session[t].pc \in Appending \ {"commit"},
           log' = log, media' = media, NEW s, session' = [session EXCEPT ![t] = s],
           s.pc \in Appending \ {"commit"}, s.tail = session[t].tail,
           s.pc = "sync" => s.batch # <<>>
    PROVE  TailsInv'
<1>1. TailInv(log[t], media[t], session[t])
  BY TailFacts
<1>2. TailInv(log[t], media[t], s)
  BY <1>1 DEF TailInv, Appending, Committing
<1>3. log' = [log EXCEPT ![t] = log[t]] /\ media' = [media EXCEPT ![t] = media[t]]
  BY TailFacts
<1> QED BY <1>2, <1>3, TailStep

(* A session that ends, in the log or not. *)
LEMMA TailStops ==
    ASSUME SessionInv, TailsInv, NEW t \in Tapes, NEW l, NEW m, NEW s,
           log' = [log EXCEPT ![t] = l], media' = [media EXCEPT ![t] = m],
           session' = [session EXCEPT ![t] = s], s.pc = "finish", l.open,
           IF l.doubt THEN s.poisoned ELSE Ends(l, m, s)
    PROVE  TailsInv'
<1>1. TailInv(l, m, s)
  BY DEF TailInv, Appending, Committing
<1> QED BY <1>1, TailStep

--------------------------------------------------------------------------------
(* Appending. *)

LEMMA ReplayTail ==
    ASSUME SessionInv, TailsInv, NEW t \in Tapes, maybe_replay_pool_write(t) PROVE TailsInv'
<1> DEFINE p == session[t]
           R == p.receipts \cup {p.obj}
           v == [p EXCEPT !.pc = "ready", !.obj = "none", !.receipts = R]
           w == [p EXCEPT !.pc = "write"]
<1>1. /\ p.pc = "admitted" /\ log' = log /\ media' = media /\ p \in Sessions
      /\ session' = [session EXCEPT ![t] = v] \/ session' = [session EXCEPT ![t] = w]
  BY TailFacts DEF maybe_replay_pool_write, At, Become, Go
<1>2. v.tail = p.tail /\ v.pc = "ready" /\ w.tail = p.tail /\ w.pc = "write"
  <2> HIDE DEF p, R
  <2> QED BY <1>1 DEF Sessions
<1> HIDE DEF v, w
<1> QED BY <1>1, <1>2, TailAppends DEF Appending

LEMMA WriteRefusedTail ==
    ASSUME SessionInv, TailsInv, NEW t \in Tapes, WriteRefused(t) PROVE TailsInv'
<1> DEFINE p == session[t]
           s == [p EXCEPT !.pc = "ready", !.obj = "none"]
<1>1. /\ p.pc = "write" /\ log' = log /\ media' = media /\ p \in Sessions
      /\ session' = [session EXCEPT ![t] = s]
  BY TailFacts DEF WriteRefused, At, Become
<1>2. s.tail = p.tail /\ s.pc = "ready"
  <2> HIDE DEF p
  <2> QED BY <1>1 DEF Sessions
<1> HIDE DEF s
<1> QED BY <1>1, <1>2, TailAppends DEF Appending

LEMMA ReserveTail ==
    ASSUME SessionInv, TailsInv, NEW t \in Tapes, NEW o \in Objects, reserve(t, o)
    PROVE  TailsInv'
<1> DEFINE p == session[t]
           v == [p EXCEPT !.waiting = 0]
           w == [v EXCEPT !.pc = "admitted", !.obj = o]
<1>1. /\ p.pc = "ready" /\ log' = log /\ media' = media /\ p \in Sessions
      /\ session' = [session EXCEPT ![t] = v] \/ session' = [session EXCEPT ![t] = w]
  BY TailFacts DEF reserve, At, Become
<1>2. /\ v \in Sessions /\ v.tail = p.tail /\ v.pc = "ready"
  <2>1. p.pc = "ready"
    BY <1>1
  <2> HIDE DEF p
  <2> QED BY <1>1, <2>1 DEF Sessions
<1> HIDE DEF v
<1>3. w.tail = p.tail /\ w.pc = "admitted"
  BY <1>2 DEF Sessions
<1> HIDE DEF w
<1> QED BY <1>1, <1>2, <1>3, TailAppends DEF Appending

(* A barrier is asked for only when there is a batch. *)
LEMMA BarrierTail ==
    ASSUME SessionInv, TailsInv, NEW t \in Tapes, session[t].pc = "ready", NEW trigger,
           session[t].batch # <<>>, Barrier(t, trigger), log' = log, media' = media
    PROVE  TailsInv'
<1> DEFINE p == session[t]
           s == [p EXCEPT !.pc = "sync", !.trigger = trigger]
<1>1. p \in Sessions /\ session' = [session EXCEPT ![t] = s]
  BY TailFacts DEF Barrier, Become
<1>2. s.tail = p.tail /\ s.pc = "sync" /\ s.batch = p.batch
  <2> HIDE DEF p
  <2> QED BY <1>1 DEF Sessions
<1> HIDE DEF s
<1> QED BY <1>1, <1>2, TailAppends DEF Appending

(* A session that ends between appends, its evidence as it was. *)
LEMMA AppendingStops ==
    ASSUME SessionInv, TailsInv, NEW t \in Tapes, session[t].pc \in Appending,
           NEW l, log' = [log EXCEPT ![t] = l], media' = media,
           l.files = log[t].files, l.due = log[t].due, l.open = log[t].open,
           NEW s, session' = [session EXCEPT ![t] = s], s.pc = "finish",
           l.doubt = log[t].doubt \/ s.poisoned,
           s.tail.names = session[t].tail.names, s.tail.synced = session[t].tail.synced
    PROVE  TailsInv'
<1>1. Ends(log[t], media[t], session[t])
  BY AppendingEnds
<1>2. Ends(l, media[t], s)
  BY <1>1 DEF Ends
<1>3. l.open /\ (~l.doubt \/ s.poisoned) /\ media' = [media EXCEPT ![t] = media[t]]
  BY TailFacts DEF TailInv, Appending
<1> QED BY <1>2, <1>3, TailStops

LEMMA CheckpointTail ==
    ASSUME SessionInv, TailsInv, NEW t \in Tapes, handle_checkpoint(t) PROVE TailsInv'
<1> DEFINE p == session[t]
           none == {}
           s == [p EXCEPT !.receipts = none]
<1>1. p.pc = "ready" /\ log' = log /\ media' = media /\ p \in Sessions
  BY TailFacts DEF handle_checkpoint, At
<1>2. CASE p.batch = <<>>
  <2>1. session' = [session EXCEPT ![t] = s]
    BY <1>2 DEF handle_checkpoint, Become
  <2>2. s.tail = p.tail /\ s.pc = p.pc
    <3> HIDE DEF p, none
    <3> QED BY <1>1 DEF Sessions
  <2> HIDE DEF s
  <2> QED BY <1>1, <2>1, <2>2, TailAppends DEF Appending
<1>3. CASE p.batch # <<>>
  BY <1>1, <1>3, BarrierTail DEF handle_checkpoint
<1> QED BY <1>2, <1>3

LEMMA CloseTail ==
    ASSUME SessionInv, TailsInv, NEW t \in Tapes, handle_close(t) PROVE TailsInv'
<1> DEFINE p == session[t]
           s == [p EXCEPT !.pc = "finish", !.reason = "CleanClose"]
<1>1. p.pc = "ready" /\ log' = log /\ media' = media /\ p \in Sessions
  BY TailFacts DEF handle_close, At
<1>2. CASE p.batch = <<>>
  <2>1. session' = [session EXCEPT ![t] = s]
    BY <1>2 DEF handle_close, Become
  <2>2. s.tail = p.tail /\ s.pc = "finish"
    <3> HIDE DEF p
    <3> QED BY <1>1 DEF Sessions
  <2> HIDE DEF s
  <2>3. log' = [log EXCEPT ![t] = log[t]]
    BY <1>1, TailFacts
  <2> QED BY <1>1, <2>1, <2>2, <2>3, AppendingStops DEF Appending
<1>3. CASE p.batch # <<>>
  BY <1>1, <1>3, BarrierTail DEF handle_close
<1> QED BY <1>2, <1>3

LEMMA AbortTail ==
    ASSUME SessionInv, TailsInv, NEW t \in Tapes, handle_abort(t) PROVE TailsInv'
<1> DEFINE p == session[t]
           none == <<>>
<1>1. /\ p.pc = "ready" /\ log' = log /\ media' = media /\ p \in Sessions
      /\ log = [log EXCEPT ![t] = log[t]]
  BY TailFacts DEF handle_abort, At
<1>2. PICK reason : session' = [session EXCEPT ![t] =
                        [p EXCEPT !.pc = "finish", !.batch = none, !.reason = reason]]
  BY DEF handle_abort, Become
<1> DEFINE s == [p EXCEPT !.pc = "finish", !.batch = none, !.reason = reason]
<1>3. s.tail = p.tail /\ s.pc = "finish"
  <2> HIDE DEF p, none
  <2> QED BY <1>1 DEF Sessions
<1>4. session' = [session EXCEPT ![t] = s]
  BY <1>2
<1> HIDE DEF s
<1> QED BY <1>1, <1>3, <1>4, AppendingStops DEF Appending

LEMMA TimersTail ==
    ASSUME SessionInv, TailsInv, NEW t \in Tapes, NEW timer,
           TimerCheckpoint(t, timer) \/ handle_timer_idle_close(t, timer)
    PROVE  TailsInv'
<1> DEFINE p == session[t]
           none == <<>>
           s == [p EXCEPT !.pc = "finish", !.batch = none, !.reason = "ClientStall"]
<1>1. /\ p.pc = "ready" /\ log' = log /\ media' = media /\ p \in Sessions
      /\ log = [log EXCEPT ![t] = log[t]]
  BY TailFacts DEF TimerCheckpoint, handle_timer_idle_close, At
<1>2. \/ session' = session
      \/ p.batch # <<>> /\ Barrier(t, "timer")
      \/ session' = [session EXCEPT ![t] = s]
  BY DEF TimerCheckpoint, handle_timer_idle_close, Become
<1>3. CASE session' = session
  <2>1. session' = [session EXCEPT ![t] = p]
    BY <1>3, TailFacts
  <2> QED BY <1>1, <2>1, TailAppends DEF Appending
<1>4. CASE p.batch # <<>> /\ Barrier(t, "timer")
  BY <1>1, <1>4, BarrierTail
<1>5. CASE session' = [session EXCEPT ![t] = s]
  <2>1. s.tail = p.tail /\ s.pc = "finish"
    <3> HIDE DEF p, none
    <3> QED BY <1>1 DEF Sessions
  <2> HIDE DEF s
  <2> QED BY <1>1, <1>5, <2>1, AppendingStops DEF Appending
<1> QED BY <1>2, <1>3, <1>4, <1>5

LEMMA RolloverTail ==
    ASSUME SessionInv, TailsInv, NEW t \in Tapes, Rollover(t) PROVE TailsInv'
<1> DEFINE p == session[t]
           k == log[t]
           l == [k EXCEPT !.plan = TRUE]
           e == [p EXCEPT !.pc = "finish", !.obj = "none"]
           v == [e EXCEPT !.sealed = TRUE, !.reason = "CleanClose"]
           w == [e EXCEPT !.poisoned = TRUE, !.reason = "FailedAppend"]
<1>1. /\ p.pc = "write" /\ media' = media /\ p \in Sessions /\ k \in Logs
      /\ log = [log EXCEPT ![t] = k]
      /\ \/ log' = [log EXCEPT ![t] = l] /\ session' = [session EXCEPT ![t] = v]
         \/ log' \in Unplanned(t) /\ session' = [session EXCEPT ![t] = w]
  BY TailFacts DEF Rollover, Planned, At, Become
<1>2. e \in Sessions /\ e.tail = p.tail /\ e.pc = "finish"
  <2> HIDE DEF p
  <2> QED BY <1>1 DEF Sessions
<1> HIDE DEF e
<1>3. /\ v.tail = p.tail /\ v.pc = "finish"
      /\ w.tail = p.tail /\ w.pc = "finish" /\ w.poisoned = TRUE
  BY <1>2 DEF Sessions
<1>4. l.files = k.files /\ l.due = k.due /\ l.open = k.open /\ l.doubt = k.doubt
  <2> HIDE DEF k
  <2> QED BY <1>1 DEF Logs
<1> HIDE DEF v, w, l
<1>5. CASE log' = [log EXCEPT ![t] = l] /\ session' = [session EXCEPT ![t] = v]
  BY <1>1, <1>3, <1>4, <1>5, AppendingStops DEF Appending
<1>6. CASE log' \in Unplanned(t) /\ session' = [session EXCEPT ![t] = w]
  <2>1. PICK d : /\ log' = [log EXCEPT ![t] = d] /\ d.files = k.files
                 /\ d.open = k.open /\ d.due = k.due
    BY <1>6, UnplannedOK DEF k
  <2> QED BY <1>1, <1>3, <1>6, <2>1, AppendingStops DEF Appending
<1> QED BY <1>1, <1>5, <1>6

LEMMA OverwrittenLength ==
    ASSUME NEW m, MediaOK(m), NEW n \in 0..Len(m.files), NEW f \in Files
    PROVE  Len(Overwritten(m, n, f).files) = n + 1
<1> DEFINE g == Overwritten(m, n, f)
<1>1. g = Overwritten(m, n, f)
  OBVIOUS
<1> HIDE DEF g
<1>2. Len(g.files) = n + 1
  BY <1>1, OverwrittenOK
<1> QED BY <1>1, <1>2

LEMMA OneMore ==
    ASSUME NEW c \in Nat, NEW h \in Nat, NEW z, z = (c + h) + 1
    PROVE  z = c + (h + 1)
OBVIOUS

(* Where an append writes: over a tail that was proved, or behind the files *)
(* dispatched before.                                                       *)
LEMMA PlacedTail ==
    ASSUME SessionInv, TailsInv, NEW t \in Tapes, session[t].pc = "write", NEW f \in Files,
           NEW g, g = Overwritten(media[t], Len(log[t].files) + Len(session[t].tail.names), f)
    PROVE  /\ Len(g.files) = Len(log[t].files) + (Len(session[t].tail.names) + 1)
           /\ g.under = <<>> \/ (g.synced = Len(log[t].files) /\ ~log[t].due)
           /\ MediaOK(g) /\ Len(log[t].files) <= g.synced
           /\ Starts(g, log[t].files \o Append(session[t].batch, f))
<1> DEFINE l == log[t]
           m == media[t]
           s == session[t]
           c == Len(l.files)
           names == s.tail.names
           at == c + Len(names)
<1>1. /\ TailInv(l, m, s) /\ TapeInv(l, m, s) /\ MediaOK(m) /\ m \in Tape /\ c \in Nat
      /\ c <= m.synced /\ m.synced \in Nat /\ Len(m.files) \in Nat /\ m.synced <= Len(m.files)
      /\ s \in Sessions /\ LogOK(l) /\ s.pc = "write" /\ Len(names) \in Nat
  BY TailFacts
<1>2. MediaOK(g) /\ Kept(l, g) /\ Starts(g, l.files \o Append(s.batch, f))
  BY <1>1, PlaceOK
<1>3. c <= g.synced
  BY <1>2 DEF Kept
<1>4. /\ names = <<>> => /\ m.synced = Len(m.files) /\ m.under = <<>>
                         /\ Len(m.files) = c \/ (m.stale /\ ~l.due)
      /\ names # <<>> => /\ Len(m.files) = at
                         /\ m.under = <<>> \/ (m.synced = c /\ ~l.due)
  BY <1>1 DEF TailInv, Appending
<1>5. g = Overwritten(m, at, f)
  OBVIOUS
<1> HIDE DEF l, m, s, c
<1>0. names = <<>> => at = c
  BY <1>1
<1> HIDE DEF names
<1>6. at \in 0..Len(m.files)
  <2>1. at \in Nat
    BY <1>1
  <2> HIDE DEF at
  <2> QED BY <1>0, <1>1, <1>4, <2>1
<1> HIDE DEF at
<1>7. Len(g.files) = c + (Len(names) + 1)
  <2>1. MediaOK(m)
    BY <1>1
  <2>2. Len(Overwritten(m, at, f).files) = at + 1
    BY <1>6, <2>1, OverwrittenLength
  <2>3. Len(g.files) = (c + Len(names)) + 1
    <3>1. Len(g.files) = at + 1
      BY ONLY <1>5, <2>2
    <3> QED BY ONLY <3>1 DEF at
  <2>4. c \in Nat /\ Len(names) \in Nat
    BY <1>1
  <2> QED BY ONLY <2>3, <2>4, OneMore
<1>8. /\ g.synced = IF at < m.synced THEN at ELSE m.synced
      /\ g.under = IF at < m.synced THEN SubSeq(m.files, at + 1, m.synced) ELSE m.under
  <2> DEFINE r == Append(Cut(m.files, at), f)
             n == IF at < m.synced THEN at ELSE m.synced
             u == IF at < m.synced THEN SubSeq(m.files, at + 1, m.synced) ELSE m.under
  <2>1. g = [m EXCEPT !.files = r, !.stale = FALSE, !.synced = n, !.under = u]
    BY <1>5 DEF Overwritten
  <2> HIDE DEF r, n, u
  <2>2. g.synced = n /\ g.under = u
    BY <1>1, <2>1 DEF Tape
  <2> QED BY <2>2 DEF n, u
<1>9. g.under = <<>> \/ (g.synced = c /\ ~l.due)
  <2>1. CASE names = <<>>
    <3>1. CASE Len(m.files) = c
      <4>1. ~(at < m.synced)
        BY <1>0, <1>1, <1>4, <2>1, <3>1
      <4> QED BY <1>4, <1>8, <2>1, <4>1
    <3>2. CASE Len(m.files) # c
      <4>1. at < m.synced /\ at = c
        BY <1>0, <1>1, <1>4, <2>1, <3>2
      <4> QED BY <1>4, <1>8, <2>1, <3>2, <4>1
    <3> QED BY <3>1, <3>2
  <2>2. CASE names # <<>>
    <3>1. ~(at < m.synced)
      BY <1>1, <1>4, <2>2
    <3> QED BY <1>4, <1>8, <2>2, <3>1
  <2> QED BY <2>1, <2>2
<1> QED BY <1>2, <1>3, <1>7, <1>9 DEF l, m, s, c, names, at

LEMMA WriteTail ==
    ASSUME SessionInv, TailsInv, NEW t \in Tapes, Write(t) PROVE TailsInv'
<1> DEFINE p == session[t]
           l == log[t]
           x == p.obj
           B == Append(p.batch, x)
           N == IF p.batch = <<>> THEN p.number + 1 ELSE p.number
           e == p.tail
           n == Append(e.names, x)
           E == [e EXCEPT !.names = n]
           j == [p EXCEPT !.batch = B, !.number = N, !.tail = E]
           v == [j EXCEPT !.pc = "sync", !.trigger = "append"]
           w == [j EXCEPT !.pc = "ready", !.obj = "none"]
           m == Overwritten(media[t], Len(l.files) + Len(e.names), x)
<1>1. /\ p.pc = "write" /\ log' = log /\ media' = [media EXCEPT ![t] = m]
      /\ session' = [session EXCEPT ![t] = v] \/ session' = [session EXCEPT ![t] = w]
  BY DEF Write, At, Become, Place, Committed, dispatched
<1>2. /\ p \in Sessions /\ log = [log EXCEPT ![t] = l] /\ e \in Evidence /\ e.names \in Seq(Files)
      /\ Len(l.files) \in Nat /\ TailInv(l, media[t], p) /\ l.due \in BOOLEAN
      /\ p.batch \in Seq(Objects)
  BY TailFacts DEF Sessions
<1>3. x \in Objects /\ x \in Files
  BY <1>1, TailFacts DEF StageInv, Files
<1>4. /\ Len(m.files) = Len(l.files) + (Len(e.names) + 1)
      /\ m.under = <<>> \/ (m.synced = Len(l.files) /\ ~l.due)
  BY <1>1, <1>3, PlacedTail
<1>5. /\ n \in Seq(Files) /\ Len(n) = Len(e.names) + 1 /\ n # <<>> /\ B # <<>>
      /\ Len(e.names) \in Nat
  BY <1>2, <1>3
<1>6. e.synced = 0 /\ l.open /\ ~l.doubt
  BY <1>1, <1>2 DEF TailInv, Appending
<1> HIDE DEF p, l, x, B, N, e, m
<1>7. E.names = n /\ E.synced = e.synced
  <2> HIDE DEF n
  <2> QED BY <1>2 DEF Evidence
<1> HIDE DEF E, n
<1>8. j.tail = E /\ j.batch = B
  BY <1>2 DEF Sessions
<1>9. /\ v.pc = "sync" /\ v.tail = E /\ v.batch = B
      /\ w.pc = "ready" /\ w.tail = E /\ w.batch = B
  BY <1>2 DEF Sessions
<1> HIDE DEF v, w, j
<1>10. Len(m.files) = Len(l.files) + Len(n)
  BY <1>4, <1>5
<1>11. ASSUME NEW s \in {v, w} PROVE TailInv(l, m, s)
  BY <1>4, <1>5, <1>6, <1>7, <1>9, <1>10 DEF TailInv, Appending, Committing
<1>12. log' = [log EXCEPT ![t] = l]
  BY <1>1, <1>2
<1> QED BY <1>1, <1>11, <1>12, TailStep

(* The evidence of an append that failed names the object, of which the     *)
(* tape may have a part.                                                    *)
LEMMA WriteTearsTail ==
    ASSUME SessionInv, TailsInv, NEW t \in Tapes, session[t].pc = "write", log' = log,
           \E f \in {"torn", session[t].obj} : Place(t, f),
           \E stopped : session' = [session EXCEPT ![t] =
              [session[t] EXCEPT !.pc = "finish", !.obj = "none", !.batch = <<>>,
                                 !.poisoned = TRUE, !.reason = "FailedAppend",
                                 !.tail = [dispatched(session[t].tail, session[t].obj) EXCEPT
                                              !.stopped = stopped]]]
    PROVE  TailsInv'
<1> DEFINE p == session[t]
           l == log[t]
           x == p.obj
           none == <<>>
           e == p.tail
           n == Append(e.names, x)
<1>1. p.pc = "write" /\ log' = log
  OBVIOUS
<1>2. PICK f \in {"torn", x} : Place(t, f)
  OBVIOUS
<1>3. PICK stopped : session' = [session EXCEPT ![t] =
            [p EXCEPT !.pc = "finish", !.obj = "none", !.batch = <<>>, !.poisoned = TRUE,
                      !.reason = "FailedAppend",
                      !.tail = [dispatched(p.tail, x) EXCEPT !.stopped = stopped]]]
  OBVIOUS
<1> DEFINE d == [e EXCEPT !.names = n]
           E == [d EXCEPT !.stopped = stopped]
           s == [p EXCEPT !.pc = "finish", !.obj = "none", !.batch = none, !.poisoned = TRUE,
                          !.reason = "FailedAppend", !.tail = E]
           m == Overwritten(media[t], Len(l.files) + Len(e.names), f)
           b == Append(p.batch, f)
           c == Len(l.files)
           k == e.synced
<1>4. session' = [session EXCEPT ![t] = s] /\ media' = [media EXCEPT ![t] = m]
  BY <1>2, <1>3 DEF dispatched, Place, Committed
<1>5. /\ p \in Sessions /\ log = [log EXCEPT ![t] = l] /\ e \in Evidence /\ e.names \in Seq(Files)
      /\ c \in Nat /\ TailInv(l, media[t], p) /\ l.due \in BOOLEAN /\ l \in Logs
      /\ p.batch \in Seq(Objects) /\ TapeInv(l, media[t], p)
  BY TailFacts DEF Sessions
<1>6. x \in Objects /\ x \in Files /\ f \in Files
  BY <1>1, <1>2, TailFacts DEF StageInv, Files
<1>7. /\ Len(m.files) = c + (Len(e.names) + 1)
      /\ m.under = <<>> \/ (m.synced = c /\ ~l.due)
      /\ MediaOK(m) /\ c <= m.synced /\ Starts(m, l.files \o b)
  BY <1>1, <1>6, PlacedTail
<1>8. k = 0 /\ l.open /\ ~l.doubt /\ e.names = p.batch
  BY <1>1, <1>5 DEF TailInv, TapeInv, Appending
<1>9. l.files \in Seq(Files) /\ p.batch \in Seq(Files)
  <2>1. Objects \cup {"sidecar"} \subseteq Files /\ l.files \in Seq(Objects \cup {"sidecar"})
    BY <1>5 DEF Files, Logs
  <2> HIDE DEF l, p
  <2> QED BY <1>5, <2>1
<1>10. x \notin {"sidecar", "half"} /\ \A o \in Objects : o \notin {"sidecar", "half"}
  BY <1>6, SessionAssumption
<1> HIDE DEF p, l, x, none, e, m
<1>11. E.names = n /\ E.synced = e.synced
  <2> HIDE DEF n
  <2>1. d \in [names : {n}, synced : Nat, stopped : BOOLEAN] /\ d.names = n /\ d.synced = e.synced
    BY <1>5 DEF Evidence
  <2> HIDE DEF d
  <2> QED BY <2>1
<1> HIDE DEF E
<1>12. s.pc = "finish" /\ s.tail = E
  BY <1>5 DEF Sessions
<1> HIDE DEF s
<1>13. /\ n \in Seq(Files) /\ Len(n) = Len(p.batch) + 1 /\ n[Len(p.batch) + 1] = x
       /\ \A i \in 1..Len(p.batch) : n[i] = p.batch[i]
       /\ n # <<>> /\ Len(p.batch) \in Nat
  BY <1>5, <1>6, <1>8
<1>14. /\ b \in Seq(Files) /\ Len(b) = Len(p.batch) + 1 /\ b[Len(p.batch) + 1] = f
       /\ \A i \in 1..Len(p.batch) : b[i] = p.batch[i]
  BY <1>6, <1>9
<1> HIDE DEF n, b
<1>15. \A i \in 1..Len(n) : m.files[c + i] = b[i]
  <2> DEFINE q == l.files \o b
  <2>1. /\ Len(q) = c + Len(b) /\ \A i \in 1..Len(b) : q[c + i] = b[i]
    <3>1. l.files \in Seq(Files) /\ b \in Seq(Files)
      BY <1>9, <1>14
    <3> QED BY <3>1, ToSetConcat
  <2>2. \A i \in 1..Len(q) : m.files[i] = q[i]
    BY <1>7 DEF Starts
  <2> HIDE DEF q, c
  <2>3. \A i \in 1..Len(b) : c + i \in 1..Len(q)
    BY <1>5, <1>13, <1>14, <2>1
  <2> QED BY <1>13, <1>14, <2>1, <2>2, <2>3
<1>16. f = x \/ f = Torn(x)
  BY <1>2, <1>10 DEF Torn
<1> HIDE DEF c, k
<1>17. \A i \in 1..Len(n) : \/ b[i] = n[i]
                            \/ i = Len(n) /\ i > k /\ b[i] = Torn(n[i])
  <2> SUFFICES ASSUME NEW i \in 1..Len(n)
               PROVE  b[i] = n[i] \/ (i = Len(n) /\ i > k /\ b[i] = Torn(n[i]))
    OBVIOUS
  <2>1. CASE i = Len(p.batch) + 1
    BY <1>8, <1>13, <1>14, <1>16, <2>1
  <2>2. CASE i # Len(p.batch) + 1
    <3>1. i \in 1..Len(p.batch)
      BY <1>13, <2>2
    <3> QED BY <1>13, <1>14, <3>1
  <2> QED BY <2>1, <2>2
<1>18. b[1] \notin {"sidecar", "half"}
  <2>1. CASE Len(p.batch) = 0
    BY <1>2, <1>10, <1>14, <2>1
  <2>2. CASE Len(p.batch) # 0
    <3>1. 1 \in 1..Len(p.batch)
      BY <1>13, <2>2
    <3>2. p.batch[1] \in Objects
      BY <1>5, <3>1
    <3> QED BY <1>10, <1>14, <3>1, <3>2
  <2> QED BY <2>1, <2>2
<1>19. Len(m.files) = c + Len(n) /\ Len(b) = Len(n) /\ k \in Nat /\ k <= Len(n)
  BY <1>7, <1>8, <1>13, <1>14
<1>23. (m.under = <<>> /\ k <= m.synced - c) \/ (m.synced = c /\ ~l.due /\ k = 0)
  <2>1. m.synced \in Nat
    BY <1>7 DEF MediaOK, Tape
  <2>2. c \in Nat /\ c <= m.synced /\ k = 0
    BY <1>5, <1>7, <1>8
  <2>3. k <= m.synced - c
    BY <2>1, <2>2
  <2> QED BY <1>7, <2>2, <2>3
<1>20. Accounted(c, l.due, m, n, k)
  <2>1. MediaOK(m) /\ c \in Nat /\ c <= m.synced /\ l.due \in BOOLEAN
    BY <1>5, <1>7
  <2>2. n \in Seq(Files) /\ n # <<>> /\ b \in Seq(Files)
    BY <1>13, <1>14
  <2> DEFINE due == l.due
  <2>3. due \in BOOLEAN
    BY <1>5
  <2>4. (m.under = <<>> /\ k <= m.synced - c) \/ (m.synced = c /\ ~due /\ k = 0)
    BY <1>23
  <2> HIDE DEF due
  <2>5. Holds(m, c, b, n) /\ PartOf(b, n, k)
    BY <1>15, <1>17 DEF Holds, PartOf
  <2>6. Accounted(c, due, m, n, k)
    BY ONLY <1>18, <1>19, <2>1, <2>2, <2>3, <2>4, <2>5, DispatchedAccounted
  <2> QED BY <2>6 DEF due
<1>21. Ends(l, m, s)
  BY <1>11, <1>12, <1>20 DEF Ends, c, k
<1>22. log' = [log EXCEPT ![t] = l]
  BY <1>1, <1>5
<1> QED BY <1>4, <1>8, <1>12, <1>21, <1>22, TailStops

LEMMA WriteFailsTail ==
    ASSUME SessionInv, TailsInv, NEW t \in Tapes, WriteFails(t) PROVE TailsInv'
<1> DEFINE p == session[t]
           none == <<>>
           Lost(tail) == [p EXCEPT !.pc = "finish", !.obj = "none", !.batch = none,
                                   !.poisoned = TRUE, !.reason = "FailedAppend", !.tail = tail]
           s == Lost(p.tail)
<1>1. p.pc = "write" /\ log' = log
  BY DEF WriteFails, At
<1>2. \/ /\ \E f \in {"torn", p.obj} : Place(t, f)
         /\ \E stopped :
               session' = [session EXCEPT ![t] =
                             Lost([dispatched(p.tail, p.obj) EXCEPT !.stopped = stopped])]
      \/ media' = media /\ session' = [session EXCEPT ![t] = s]
  BY DEF WriteFails, Become
<1>3. CASE /\ \E f \in {"torn", p.obj} : Place(t, f)
           /\ \E stopped :
                 session' = [session EXCEPT ![t] =
                               Lost([dispatched(p.tail, p.obj) EXCEPT !.stopped = stopped])]
  BY <1>1, <1>3, WriteTearsTail
<1>4. CASE media' = media /\ session' = [session EXCEPT ![t] = s]
  <2>1. p \in Sessions /\ log' = [log EXCEPT ![t] = log[t]]
    BY <1>1, TailFacts
  <2> HIDE DEF p, none
  <2>2. s.pc = "finish" /\ s.tail = p.tail
    BY <2>1 DEF Sessions
  <2> HIDE DEF s
  <2> QED BY <1>1, <1>4, <2>1, <2>2, AppendingStops DEF Appending, p
<1> QED BY <1>2, <1>3, <1>4

--------------------------------------------------------------------------------
(* The barrier. *)

LEMMA SyncedIs ==
    ASSUME NEW m, MediaOK(m), NEW g, g = Synced(m)
    PROVE  /\ MediaOK(g) /\ g.files = m.files /\ g.synced = Len(m.files)
           /\ g.under = <<>> /\ g.stale = m.stale
<1> DEFINE n == Len(m.files)
           none == <<>>
<1>1. m \in Tape /\ MediaOK(g) /\ g.files = m.files /\ g.synced = Len(m.files)
  BY SyncedOK DEF MediaOK
<1>2. g = [m EXCEPT !.synced = n, !.under = none]
  BY DEF Synced
<1> HIDE DEF n, none
<1>3. g.under = none /\ g.stale = m.stale
  BY <1>1, <1>2 DEF Tape
<1> QED BY <1>1, <1>3 DEF none

(* A barrier that fails poisons the session, and keeps its evidence unless  *)
(* the commit is durable.                                                   *)
LEMMA BarrierFailsTail ==
    ASSUME NEW t, NEW kind, NEW q \in Sessions, BarrierFails(t, kind, q)
    PROVE  \E s : /\ session' = [session EXCEPT ![t] = s] /\ s.pc = "finish" /\ s.poisoned
                  /\ s.tail = IF Durable(kind) THEN NoEvidence ELSE q.tail
<1> DEFINE none == <<>>
           R == IF Durable(kind) THEN Claimed(q) ELSE q.receipts
           E == IF Durable(kind) THEN NoEvidence ELSE q.tail
           z == [q EXCEPT !.batch = none, !.obj = "none", !.trigger = "none"]
           s == [z EXCEPT !.pc = "finish", !.poisoned = TRUE, !.reason = "FailedAppend",
                          !.receipts = R, !.tail = E]
<1>1. z \in Sessions /\ z.receipts = q.receipts /\ z.tail = q.tail
  <2>1. none \in Seq(Objects)
    OBVIOUS
  <2> HIDE DEF none
  <2> QED BY <2>1 DEF Sessions
<1>2. Settled(q) = z
  BY DEF Settled
<1> HIDE DEF z
<1>3. s = [Settled(q) EXCEPT
              !.pc = "finish", !.poisoned = TRUE, !.reason = "FailedAppend",
              !.receipts = IF kind \in {"unprojected", "projected"} THEN Claimed(q) ELSE @,
              !.tail = IF kind \in {"unprojected", "projected"} THEN NoEvidence ELSE @]
  BY <1>1, <1>2 DEF Durable, Sessions
<1>4. session' = [session EXCEPT ![t] = s]
  BY <1>3 DEF BarrierFails, Become
<1> HIDE DEF R, E
<1>5. s.pc = "finish" /\ s.poisoned /\ s.tail = E
  BY <1>1 DEF Sessions
<1> HIDE DEF s
<1> QED BY <1>4, <1>5 DEF E

LEMMA SynchronizeTail ==
    ASSUME SessionInv, TailsInv, NEW t \in Tapes, Synchronize(t) PROVE TailsInv'
<1> DEFINE p == session[t]
           l == log[t]
           h == media[t]
           m == Synced(h)
           e == p.tail
           n == Len(e.names)
           x == [e EXCEPT !.synced = n]
           y == [e EXCEPT !.stopped = TRUE]
           s == [p EXCEPT !.pc = "commit", !.tail = x]
           q == [p EXCEPT !.tail = y]
<1>1. p.pc = "sync" /\ log' = log
  BY DEF Synchronize, At
<1>2. /\ TailInv(l, h, p) /\ MediaOK(h) /\ p \in Sessions /\ e \in Evidence /\ n \in Nat
      /\ log = [log EXCEPT ![t] = l] /\ Len(l.files) \in Nat /\ Len(l.files) <= h.synced
      /\ e.names \in Seq(Files) /\ e.synced \in Nat /\ l.due \in BOOLEAN
  BY TailFacts
<1>3. \/ session' = [session EXCEPT ![t] = s] /\ media' = [media EXCEPT ![t] = m]
      \/ /\ \E g \in Remains(h) : media' = [media EXCEPT ![t] = g]
         /\ BarrierFails(t, "before", q)
      \/ media' = media /\ BarrierFails(t, "before", p)
  <2>1. /\ [p EXCEPT !.pc = "commit", !.tail.synced = Len(p.tail.names)] = s
        /\ [p EXCEPT !.tail.stopped = TRUE] = q
    BY <1>2 DEF Sessions
  <2> HIDE DEF s, q
  <2> QED BY <2>1 DEF Synchronize, Become
<1>4. /\ m.files = h.files /\ m.synced = Len(h.files) /\ m.under = <<>> /\ m.stale = h.stale
  BY <1>2, SyncedIs
<1>5. Ends(l, h, p)
  BY <1>1, AppendingEnds DEF Appending
<1>14. log' = [log EXCEPT ![t] = l]
  BY <1>1, <1>2
<1> HIDE DEF p, l, h, m, e, n
<1>6. x.names = e.names /\ y.names = e.names /\ y.synced = e.synced /\ x \in Evidence /\ y \in Evidence
  BY <1>2 DEF Evidence
<1> HIDE DEF x, y
<1>7. s.pc = "commit" /\ s.tail = x /\ s.batch = p.batch /\ q.tail = y /\ q \in Sessions
  BY <1>2, <1>6 DEF Sessions
<1> HIDE DEF s, q
<1>8. l.open /\ ~l.doubt
  BY <1>1, <1>2 DEF TailInv, Appending
<1>9. CASE session' = [session EXCEPT ![t] = s] /\ media' = [media EXCEPT ![t] = m]
  <2>1. TailInv(l, m, s)
    BY <1>1, <1>2, <1>4, <1>6, <1>7, <1>8 DEF TailInv, Appending, Committing, e
  <2> QED BY <1>9, <1>14, <2>1, TailStep
<1>10. CASE /\ \E g \in Remains(h) : media' = [media EXCEPT ![t] = g]
            /\ BarrierFails(t, "before", q)
  <2>1. PICK g \in Remains(h) : media' = [media EXCEPT ![t] = g]
    BY <1>10
  <2>2. PICK w : /\ session' = [session EXCEPT ![t] = w] /\ w.pc = "finish" /\ w.tail = q.tail
    BY <1>7, <1>10, BarrierFailsTail DEF Durable
  <2> DEFINE c == Len(l.files)
             names == e.names
             k == e.synced
             due == l.due
  <2>3. Accounted(c, due, h, names, k)
    BY <1>5 DEF Ends, e
  <2>4. c \in Nat /\ c <= h.synced /\ names \in Seq(Files) /\ k \in Nat /\ due \in BOOLEAN
    BY <1>2
  <2> HIDE DEF c, names, k, due
  <2>5. Accounted(c, due, g, names, k)
    BY <1>2, <2>3, <2>4, RemainsAccounted
  <2>6. Ends(l, g, w)
    BY <1>6, <1>7, <2>2, <2>5 DEF Ends, c, names, k, due
  <2> QED BY <1>8, <1>14, <2>1, <2>2, <2>6, TailStops
<1>11. CASE media' = media /\ BarrierFails(t, "before", p)
  <2>1. media' = [media EXCEPT ![t] = h]
    BY <1>11, TailFacts DEF h
  <2>2. PICK w : /\ session' = [session EXCEPT ![t] = w] /\ w.pc = "finish" /\ w.tail = p.tail
    BY <1>2, <1>11, BarrierFailsTail DEF Durable
  <2>3. Ends(l, h, w)
    BY <1>5, <2>2 DEF Ends
  <2> QED BY <1>8, <1>14, <2>1, <2>2, <2>3, TailStops
<1> QED BY <1>3, <1>9, <1>10, <1>11

(* The tape ends with what its log says, and the session has no evidence. *)
LEMMA ClearEnds ==
    ASSUME NEW l \in Logs, NEW m, MediaOK(m), m.synced = Len(m.files), m.under = <<>>,
           Len(m.files) = Len(l.files), NEW s, s.tail = NoEvidence
    PROVE  Ends(l, m, s)
<1> DEFINE c == Len(l.files)
           due == l.due
           none == <<>>
<1>1. c \in Nat /\ due \in BOOLEAN /\ none \in Seq(Files) /\ Len(m.files) = c
  BY DEF Logs
<1>2. s.tail.names = none /\ s.tail.synced = 0
  BY DEF NoEvidence
<1> HIDE DEF c, due, none
<1>3. Accounted(c, due, m, none, 0)
  BY <1>1, EmptyAccounted
<1> QED BY <1>2, <1>3 DEF Ends, c, due

(* At its commit, a tape ends with the batch. *)
LEMMA CommitCovers ==
    ASSUME SessionInv, TailsInv, NEW t \in Tapes, session[t].pc = "commit"
    PROVE  /\ media[t].synced = Len(media[t].files) /\ media[t].under = <<>>
           /\ Len(media[t].files) = Len(log[t].files \o session[t].batch)
<1> DEFINE p == session[t]
           l == log[t]
           m == media[t]
           c == Len(l.files)
           b == p.batch
           z == Len(m.files)
<1>1. /\ TailInv(l, m, p) /\ TapeInv(l, m, p) /\ p \in Sessions /\ l \in Logs /\ p.pc = "commit"
      /\ c \in Nat /\ z \in Nat
  BY TailFacts
<1>2. /\ m.synced = z /\ p.tail.names = b /\ b # <<>> /\ z = c + Len(b)
      /\ m.under = <<>> \/ m.synced = c
  BY <1>1 DEF TailInv, TapeInv, Appending
<1>3. b \in Seq(Objects) /\ l.files \in Seq(Objects \cup {"sidecar"})
  BY <1>1 DEF Sessions, Logs
<1> HIDE DEF p, m
<1>4. b \in Seq(Objects \cup {"sidecar"}) /\ Len(b) \in Nat /\ Len(b) # 0
  BY <1>2, <1>3
<1>5. Len(l.files \o b) = c + Len(b)
  BY <1>3, <1>4, ToSetConcat
<1> HIDE DEF l, c, b, z
<1>6. m.under = <<>>
  BY <1>1, <1>2, <1>4
<1> QED BY <1>2, <1>5, <1>6 DEF p, l, m, b, z

LEMMA CompleteReportTail ==
    ASSUME SessionInv, TailsInv, NEW t \in Tapes, complete_report(t) PROVE TailsInv'
<1> DEFINE p == session[t]
           k == log[t]
           m == media[t]
           f == k.files \o p.batch
           due == t \in Parity
           l == [k EXCEPT !.files = f, !.due = due]
           kd == [k EXCEPT !.doubt = TRUE]
           ld == [l EXCEPT !.doubt = TRUE]
           s == [p EXCEPT !.pc = "project"]
<1>1. /\ p.pc = "commit" /\ media' = media
      /\ \/ log' = [log EXCEPT ![t] = l] /\ session' = [session EXCEPT ![t] = s]
         \/ log' = log /\ BarrierFails(t, "before", p)
         \/ log' = [log EXCEPT ![t] = l] /\ BarrierFails(t, "unprojected", p)
         \/ log' = [log EXCEPT ![t] = kd] /\ BarrierFails(t, "uncertain", p)
         \/ log' = [log EXCEPT ![t] = ld] /\ BarrierFails(t, "uncertain", p)
  <2> DEFINE co == [log EXCEPT ![t].files = @ \o p.batch, ![t].due = t \in Parity]
  <2>1. log \in [Tapes -> Logs]
    BY DEF SessionInv, SessionTypes
  <2>2. co = [log EXCEPT ![t] = l]
    BY <2>1
  <2>3. InDoubt(t, log) = [log EXCEPT ![t] = kd]
    BY DEF InDoubt
  <2>4. InDoubt(t, co) = [log EXCEPT ![t] = ld]
    <3> HIDE DEF l, co
    <3> QED BY <2>1, <2>2 DEF InDoubt
  <2> HIDE DEF l, ld, kd
  <2> QED BY <2>2, <2>3, <2>4 DEF complete_report, At, Go, Become
<1>2. /\ TailInv(k, m, p) /\ MediaOK(m) /\ p \in Sessions /\ k \in Logs
      /\ log = [log EXCEPT ![t] = k] /\ media = [media EXCEPT ![t] = m]
  BY TailFacts
<1>3. m.synced = Len(m.files) /\ m.under = <<>> /\ Len(m.files) = Len(f)
  BY <1>1, CommitCovers
<1>4. media' = [media EXCEPT ![t] = m]
  BY <1>1, <1>2
<1>5. f \in Seq(Objects \cup {"sidecar"}) /\ due \in BOOLEAN
  <2>1. k.files \in Seq(Objects \cup {"sidecar"}) /\ p.batch \in Seq(Objects \cup {"sidecar"})
    BY <1>2 DEF Logs, Sessions
  <2> QED BY <2>1, ToSetConcat
<1> HIDE DEF p, k, m, f, due
<1>6. k.open /\ ~k.doubt
  BY <1>1, <1>2 DEF TailInv, Appending
<1>7. /\ l \in Logs /\ l.files = f /\ l.open = k.open /\ l.doubt = k.doubt
      /\ kd.open = k.open /\ kd.doubt
  BY <1>2, <1>5 DEF Logs
<1> HIDE DEF l, kd
<1>8. ld.open = l.open /\ ld.doubt
  BY <1>7 DEF Logs
<1> HIDE DEF ld
<1>9. CASE log' = [log EXCEPT ![t] = l] /\ session' = [session EXCEPT ![t] = s]
  <2>1. s.pc = "project"
    BY <1>2 DEF Sessions
  <2> HIDE DEF s
  <2>2. TailInv(l, m, s)
    BY <1>3, <1>6, <1>7, <2>1 DEF TailInv, Appending, Committing
  <2> QED BY <1>4, <1>9, <2>2, TailStep
<1>10. CASE log' = log /\ BarrierFails(t, "before", p)
  <2>1. PICK w : session' = [session EXCEPT ![t] = w] /\ w.pc = "finish" /\ w.tail = p.tail
    BY <1>2, <1>10, BarrierFailsTail DEF Durable
  <2>2. log' = [log EXCEPT ![t] = k]
    BY <1>2, <1>10
  <2> QED BY <1>1, <2>1, <2>2, AppendingStops DEF p, k, Appending
<1>11. CASE log' = [log EXCEPT ![t] = l] /\ BarrierFails(t, "unprojected", p)
  <2>1. PICK w : session' = [session EXCEPT ![t] = w] /\ w.pc = "finish" /\ w.tail = NoEvidence
    BY <1>2, <1>11, BarrierFailsTail DEF Durable
  <2>2. Ends(l, m, w)
    BY <1>2, <1>3, <1>7, <2>1, ClearEnds
  <2> QED BY <1>4, <1>6, <1>7, <1>11, <2>1, <2>2, TailStops
<1>12. ASSUME NEW d \in {kd, ld}, log' = [log EXCEPT ![t] = d], BarrierFails(t, "uncertain", p)
       PROVE  TailsInv'
  <2>1. PICK w : session' = [session EXCEPT ![t] = w] /\ w.pc = "finish" /\ w.poisoned
    BY <1>2, <1>12, BarrierFailsTail
  <2>2. d.open /\ d.doubt
    BY <1>6, <1>7, <1>8
  <2> QED BY <1>4, <1>12, <2>1, <2>2, TailStops
<1> QED BY <1>1, <1>9, <1>10, <1>11, <1>12

LEMMA ProjectTail ==
    ASSUME SessionInv, TailsInv, NEW t \in Tapes, project_tape_log(t) PROVE TailsInv'
<1> DEFINE p == session[t]
           l == log[t]
           m == media[t]
           x == IF seal_due(t) THEN "decide" ELSE "done"
           s == [p EXCEPT !.pc = x]
<1>1. /\ p.pc = "project" /\ log' = log /\ media' = media
      /\ \/ session' = [session EXCEPT ![t] = s]
         \/ BarrierFails(t, "unprojected", p)
  BY DEF project_tape_log, At, Go, Become
<1>2. /\ TailInv(l, m, p) /\ MediaOK(m) /\ p \in Sessions /\ l \in Logs
      /\ log' = [log EXCEPT ![t] = l] /\ media' = [media EXCEPT ![t] = m]
  BY <1>1, TailFacts
<1>3. x \in {"decide", "done"}
  OBVIOUS
<1> HIDE DEF p, l, m, x
<1>4. /\ l.open /\ ~l.doubt /\ m.under = <<>> /\ m.synced = Len(m.files)
      /\ Len(m.files) = Len(l.files)
  BY <1>1, <1>2 DEF TailInv, Committing
<1>5. CASE session' = [session EXCEPT ![t] = s]
  <2>1. s.pc = x
    BY <1>2 DEF Sessions
  <2> HIDE DEF s
  <2>2. TailInv(l, m, s)
    BY <1>3, <1>4, <2>1 DEF TailInv, Appending, Committing
  <2> QED BY <1>2, <1>5, <2>2, TailStep
<1>6. CASE BarrierFails(t, "unprojected", p)
  <2>1. PICK w : session' = [session EXCEPT ![t] = w] /\ w.pc = "finish" /\ w.tail = NoEvidence
    BY <1>2, <1>6, BarrierFailsTail DEF Durable
  <2>2. Ends(l, m, w)
    BY <1>2, <1>4, <2>1, ClearEnds
  <2> QED BY <1>2, <1>4, <2>1, <2>2, TailStops
<1> QED BY <1>1, <1>5, <1>6

LEMMA DecideTail ==
    ASSUME SessionInv, TailsInv, NEW t \in Tapes, decide_live_finalization(t) PROVE TailsInv'
<1> DEFINE p == session[t]
           k == log[t]
           m == media[t]
           l == [k EXCEPT !.plan = TRUE]
           s == [p EXCEPT !.pc = "done", !.sealed = TRUE]
           q == [p EXCEPT !.sealed = TRUE]
<1>1. /\ p.pc = "decide" /\ media' = media
      /\ \/ log' = [log EXCEPT ![t] = l] /\ session' = [session EXCEPT ![t] = s]
         \/ log' \in Unplanned(t) /\ BarrierFails(t, "projected", q)
  BY DEF decide_live_finalization, Planned, At, Become
<1>2. /\ TailInv(k, m, p) /\ MediaOK(m) /\ p \in Sessions /\ k \in Logs
      /\ log = [log EXCEPT ![t] = k] /\ media' = [media EXCEPT ![t] = m]
  BY <1>1, TailFacts
<1> HIDE DEF p, k, m
<1>3. /\ k.open /\ ~k.doubt /\ m.under = <<>> /\ m.synced = Len(m.files)
      /\ Len(m.files) = Len(k.files)
  BY <1>1, <1>2 DEF TailInv, Committing
<1>4. l.files = k.files /\ l.open = k.open /\ l.doubt = k.doubt
  BY <1>2 DEF Logs
<1>5. s.pc = "done" /\ q \in Sessions
  BY <1>2 DEF Sessions
<1> HIDE DEF l, s, q
<1>6. CASE log' = [log EXCEPT ![t] = l] /\ session' = [session EXCEPT ![t] = s]
  <2>1. TailInv(l, m, s)
    BY <1>3, <1>4, <1>5 DEF TailInv, Appending, Committing
  <2> QED BY <1>2, <1>6, <2>1, TailStep
<1>7. CASE log' \in Unplanned(t) /\ BarrierFails(t, "projected", q)
  <2>1. PICK w : /\ session' = [session EXCEPT ![t] = w] /\ w.pc = "finish" /\ w.poisoned
                 /\ w.tail = NoEvidence
    BY <1>5, <1>7, BarrierFailsTail DEF Durable
  <2>2. PICK d : /\ log' = [log EXCEPT ![t] = d] /\ LogOK(d)
                 /\ d.files = k.files /\ d.open = k.open
    BY <1>7, UnplannedOK DEF k
  <2>3. Ends(d, m, w)
    BY <1>2, <1>3, <2>1, <2>2, ClearEnds DEF LogOK
  <2> QED BY <1>2, <1>3, <2>1, <2>2, <2>3, TailStops
<1> QED BY <1>1, <1>6, <1>7

LEMMA BarrierDoneTail ==
    ASSUME SessionInv, TailsInv, NEW t \in Tapes, BarrierDone(t) PROVE TailsInv'
<1> DEFINE p == session[t]
           l == log[t]
           m == media[t]
           none == <<>>
           ends == p.trigger = "close" \/ p.sealed
           R == Claimed(p)
           E == NoEvidence
           x == IF ends THEN "finish" ELSE "ready"
           y == IF ends THEN "CleanClose" ELSE p.reason
           w == IF p.trigger = "timer" THEN p.number ELSE p.waiting
           z == [p EXCEPT !.batch = none, !.obj = "none", !.trigger = "none"]
           d == [z EXCEPT !.receipts = R, !.tail = E, !.pc = x, !.reason = y, !.waiting = w]
           g == [d EXCEPT !.pc = "finish", !.poisoned = TRUE, !.reason = "FailedAppend"]
<1>1. /\ TailInv(l, m, p) /\ MediaOK(m) /\ p \in Sessions /\ l \in Logs /\ p.pc = "done"
      /\ log' = [log EXCEPT ![t] = l] /\ media' = [media EXCEPT ![t] = m] /\ none \in Seq(Objects)
  BY TailFacts DEF BarrierDone, At
<1>2. z \in Sessions
  <2> HIDE DEF none, p
  <2> QED BY <1>1 DEF Sessions
<1>3. \/ session' = [session EXCEPT ![t] = d]
      \/ session' = [session EXCEPT ![t] = g]
  <2>1. z.receipts = p.receipts /\ z.reason = p.reason /\ z.waiting = p.waiting /\ Settled(p) = z
    BY <1>1 DEF Sessions, Settled
  <2>2. d = [Settled(p) EXCEPT !.receipts = Claimed(p), !.tail = NoEvidence,
                               !.pc = IF ends THEN "finish" ELSE "ready",
                               !.reason = IF ends THEN "CleanClose" ELSE @,
                               !.waiting = IF p.trigger = "timer" THEN p.number ELSE @]
    <3> HIDE DEF z
    <3> QED BY <1>2, <2>1 DEF Sessions
  <2> HIDE DEF d
  <2> QED BY <2>2 DEF BarrierDone, Become
<1>4. x \in {"finish", "ready"}
  OBVIOUS
<1>5. /\ l.open /\ ~l.doubt /\ m.under = <<>> /\ m.synced = Len(m.files)
      /\ Len(m.files) = Len(l.files)
  BY <1>1 DEF TailInv, Committing
<1> HIDE DEF p, l, m, none, R, E, x, y, w, z
<1>6. /\ d.pc = x /\ d.tail = E /\ g.pc = "finish" /\ g.tail = E
  BY <1>2 DEF Sessions
<1> HIDE DEF d, g
<1>7. ASSUME NEW s, session' = [session EXCEPT ![t] = s], s.pc \in {"finish", "ready"}, s.tail = E
      PROVE  TailsInv'
  <2>1. Ends(l, m, s) /\ s.tail.names = <<>> /\ s.tail.synced = 0
    BY <1>1, <1>5, <1>7, ClearEnds, NoEvidenceOK DEF E
  <2>2. TailInv(l, m, s)
    BY <1>5, <1>7, <2>1 DEF TailInv, Appending, Committing
  <2> QED BY <1>1, <1>7, <2>2, TailStep
<1> QED BY <1>3, <1>4, <1>6, <1>7

--------------------------------------------------------------------------------
(* Ending. *)

LEMMA FinishTail ==
    ASSUME SessionInv, TailsInv, NEW t \in Tapes, Finish(t) PROVE TailsInv'
<1> DEFINE p == session[t]
           l == log[t]
           m == media[t]
           r == Reason(p)
           pc == IF Clean(p) /\ l.due /\ ~l.plan THEN "closeout" ELSE "end"
           s == [p EXCEPT !.reason = r, !.after = "end", !.pc = pc]
<1>1. /\ TailInv(l, m, p) /\ p \in Sessions /\ p.pc = "finish"
      /\ log' = [log EXCEPT ![t] = l] /\ media' = [media EXCEPT ![t] = m]
      /\ session' = [session EXCEPT ![t] = s]
  BY TailFacts DEF Finish, At, Become
<1>2. /\ pc \in {"closeout", "end"}
      /\ pc = "closeout" => l.due /\ ~p.poisoned /\ p.tail.names = <<>>
  BY DEF Clean
<1> HIDE DEF p, l, m, r, pc
<1>3. s.pc = pc /\ s.tail = p.tail /\ s.after = "end"
  BY <1>1 DEF Sessions
<1> HIDE DEF s
<1>4. /\ l.open /\ (l.doubt => p.poisoned) /\ (~l.doubt => Ends(l, m, p))
  BY <1>1 DEF TailInv
<1>5. ~l.doubt => Ends(l, m, s)
  BY <1>3, <1>4 DEF Ends
<1>6. TailInv(l, m, s)
  BY <1>2, <1>3, <1>4, <1>5 DEF TailInv, Appending, Committing
<1> QED BY <1>1, <1>6, TailStep

(* A session that is not there. *)
LEMMA ClosedTail ==
    ASSUME SessionInv, TailsInv, NEW t \in Tapes, NEW l, NEW m, NEW s,
           log' = [log EXCEPT ![t] = l], media' = [media EXCEPT ![t] = m],
           session' = [session EXCEPT ![t] = s], s.pc = "closed",
           ~l.open => Accounted(Len(l.files), l.due, m, l.tail, l.synced)
    PROVE  TailsInv'
<1>1. TailInv(l, m, s)
  BY DEF TailInv, Appending, Committing
<1> QED BY <1>1, TailStep

LEMMA ClosedTails ==
    ASSUME NEW x \in {"closed", "closeout", "opening"}
    PROVE  /\ [Closed EXCEPT !.pc = x].pc = x /\ [Closed EXCEPT !.pc = x].after = "closed"
           /\ [Closed EXCEPT !.pc = x, !.after = "opening"].pc = x
           /\ [Closed EXCEPT !.pc = x, !.after = "opening"].after = "opening"
           /\ [Closed EXCEPT !.pc = x, !.after = "opening"].tail = NoEvidence
<1> DEFINE c == Closed
<1>1. c \in Sessions /\ c.after = "closed" /\ c.tail = NoEvidence
  BY ClosedFields
<1> HIDE DEF c
<1>2. /\ [c EXCEPT !.pc = x].pc = x /\ [c EXCEPT !.pc = x].after = "closed"
      /\ [c EXCEPT !.pc = x, !.after = "opening"].pc = x
      /\ [c EXCEPT !.pc = x, !.after = "opening"].after = "opening"
      /\ [c EXCEPT !.pc = x, !.after = "opening"].tail = NoEvidence
  BY <1>1 DEF Sessions
<1> QED BY <1>2 DEF c

(* The ending names what the tape holds behind its log. *)
LEMMA EndTail ==
    ASSUME SessionInv, TailsInv, NEW t \in Tapes, End(t) PROVE TailsInv'
<1> DEFINE p == session[t]
           m == media[t]
           l == log[t]
           n == p.tail.names
           y == p.tail.synced
           k == [l EXCEPT !.open = FALSE, !.tail = n, !.synced = y]
           s == [Closed EXCEPT !.pc = "closeout"]
<1>1. /\ TailInv(l, m, p) /\ p \in Sessions /\ p.pc = "end" /\ l \in Logs
      /\ media' = [media EXCEPT ![t] = m] /\ log = [log EXCEPT ![t] = l]
      /\ n \in Seq(Files) /\ y \in Nat
  BY TailFacts DEF End, At
<1>2. \/ /\ ~l.doubt /\ log' = [log EXCEPT ![t] = k]
         /\ \/ l.due /\ session' = [session EXCEPT ![t] = s]
            \/ session' = [session EXCEPT ![t] = Closed]
      \/ log' = log /\ session' = [session EXCEPT ![t] = Closed]
  BY DEF End, end_session, Become
<1>3. l.open /\ (~l.doubt => Accounted(Len(l.files), l.due, m, n, y))
  BY <1>1 DEF TailInv, Ends
<1> HIDE DEF p, m, l, n, y
<1>4. k.files = l.files /\ k.due = l.due /\ k.tail = n /\ k.synced = y /\ k.doubt = l.doubt
      /\ ~k.open
  BY <1>1 DEF Logs
<1> HIDE DEF k
<1>5. Closed.pc = "closed" /\ s.pc = "closeout" /\ s.after = "closed"
  BY ClosedFields, ClosedTails
<1> HIDE DEF s
<1>6. ~l.doubt => Accounted(Len(k.files), k.due, m, k.tail, k.synced)
  BY <1>3, <1>4
<1>7. CASE log' = log /\ session' = [session EXCEPT ![t] = Closed]
  <2>1. log' = [log EXCEPT ![t] = l]
    BY <1>1, <1>7
  <2> QED BY <1>1, <1>3, <1>5, <1>7, <2>1, ClosedTail
<1>8. CASE ~l.doubt /\ log' = [log EXCEPT ![t] = k] /\ session' = [session EXCEPT ![t] = Closed]
  BY <1>1, <1>5, <1>6, <1>8, ClosedTail
<1>9. CASE /\ ~l.doubt /\ log' = [log EXCEPT ![t] = k]
           /\ l.due /\ session' = [session EXCEPT ![t] = s]
  <2>1. TailInv(k, m, s)
    BY <1>4, <1>5, <1>6, <1>9 DEF TailInv, Appending, Committing
  <2> QED BY <1>1, <1>9, <2>1, TailStep
<1> QED BY <1>2, <1>7, <1>8, <1>9

--------------------------------------------------------------------------------
(* Opening. *)

(* A recovered tail is what the tape holds. *)
LEMMA RecoveredTail ==
    ASSUME SessionInv, TailsInv, NEW t \in Tapes, NEW m, m.files = media[t].files,
           m.synced = Len(media[t].files), m.under = <<>>,
           NEW l, l = [log[t] EXCEPT !.open = FALSE, !.tail = Suffix(t),
                                     !.synced = Len(Suffix(t))]
    PROVE  /\ l.files = log[t].files /\ l.due = log[t].due /\ l.doubt = log[t].doubt /\ ~l.open
           /\ Accounted(Len(l.files), l.due, m, l.tail, l.synced)
           /\ Suffix(t) = <<>> => Len(m.files) = Len(l.files)
<1> DEFINE k == log[t]
           h == media[t]
           c == Len(k.files)
           z == Len(h.files)
           x == Suffix(t)
           n == Len(x)
<1>1. /\ k \in Logs /\ h.files \in Seq(Files) /\ c \in 0..z /\ c \in Nat /\ z \in Nat
  BY TailFacts DEF MediaOK, Tape
<1>2. x \in Seq(Files) /\ n = z - c /\ x = Behind(m.files, c)
  BY <1>1, BehindIs DEF Suffix, Committed
<1>3. l = [k EXCEPT !.open = FALSE, !.tail = x, !.synced = n]
  OBVIOUS
<1>9. m.synced = z /\ m.under = <<>> /\ Len(m.files) = z
  OBVIOUS
<1>11. x = <<>> => n = 0
  OBVIOUS
<1>12. n \in Nat
  <2> DEFINE y == x
  <2>1. y \in Seq(Files) /\ n = Len(y)
    BY <1>2
  <2> HIDE DEF y, n
  <2> QED BY <2>1
<1>13. Within(x, x, n)
  BY <1>2, <1>12 DEF Within
<1> HIDE DEF k, h, c, z, x, n
<1>4. /\ l.files = k.files /\ l.due = k.due /\ l.doubt = k.doubt /\ l.open = FALSE
      /\ l.tail = x /\ l.synced = n
  BY <1>1, <1>3 DEF Logs
<1>5. Named(c, m, x, n)
  <2>1. n <= m.synced - c
    BY <1>1, <1>2, <1>9
  <2> QED BY <1>2, <1>9, <1>13, <2>1 DEF Named
<1>6. Accounted(Len(l.files), l.due, m, l.tail, l.synced)
  BY <1>4, <1>5 DEF Accounted, c
<1>7. x = <<>> => Len(m.files) = c
  BY <1>1, <1>2, <1>9, <1>11
<1> QED BY <1>4, <1>6, <1>7 DEF k, c, x

LEMMA ProveTail ==
    ASSUME SessionInv, TailsInv, NEW t \in Tapes, Prove(t)
    PROVE  \E l, m : /\ log' = [log EXCEPT ![t] = l] /\ media' = [media EXCEPT ![t] = m]
                     /\ ~l.open /\ ~l.doubt /\ l.due = log[t].due
                     /\ Accounted(Len(l.files), l.due, m, l.tail, l.synced)
                     /\ m.synced = Len(m.files) /\ m.under = <<>>
                     /\ Len(m.files) = Len(l.files) \/ m.stale
<1> DEFINE l == [log[t] EXCEPT !.open = FALSE, !.tail = Suffix(t), !.synced = Len(Suffix(t))]
           b == Suffix(t) # <<>>
           g == Synced(media[t])
           m == [g EXCEPT !.stale = b]
<1>1. log' = [log EXCEPT ![t] = l] /\ media' = [media EXCEPT ![t] = m] /\ ~log[t].doubt
  BY DEF Prove, Recovered
<1>2. /\ MediaOK(g) /\ g.files = media[t].files /\ g.synced = Len(media[t].files) /\ g.under = <<>>
  BY TailFacts, SyncedIs
<1> HIDE DEF g
<1>3. m.files = g.files /\ m.synced = g.synced /\ m.under = g.under /\ m.stale = b
  <2> HIDE DEF b
  <2> QED BY <1>2 DEF MediaOK, Tape
<1>5. /\ m.files = media[t].files /\ m.synced = Len(media[t].files) /\ m.under = <<>>
      /\ l = [log[t] EXCEPT !.open = FALSE, !.tail = Suffix(t), !.synced = Len(Suffix(t))]
  BY <1>2, <1>3
<1> HIDE DEF m, l
<1>4. /\ l.due = log[t].due /\ l.doubt = log[t].doubt /\ ~l.open
      /\ Accounted(Len(l.files), l.due, m, l.tail, l.synced)
      /\ Suffix(t) = <<>> => Len(m.files) = Len(l.files)
  BY <1>5, RecoveredTail
<1> QED BY <1>1, <1>2, <1>3, <1>4 DEF b

LEMMA OpenTail ==
    ASSUME SessionInv, TailsInv, NEW t \in Tapes, Open(t) PROVE TailsInv'
<1> DEFINE pc == IF log[t].due THEN "closeout" ELSE "opening"
           s == [Closed EXCEPT !.pc = pc, !.after = "opening"]
<1>1. Prove(t) /\ session' = [session EXCEPT ![t] = s]
  BY DEF Open, Become
<1>2. pc \in {"closeout", "opening"} /\ (pc = "closeout" <=> log[t].due)
  OBVIOUS
<1>3. PICK l, m : /\ log' = [log EXCEPT ![t] = l] /\ media' = [media EXCEPT ![t] = m]
                  /\ ~l.open /\ ~l.doubt /\ l.due = log[t].due
                  /\ Accounted(Len(l.files), l.due, m, l.tail, l.synced)
                  /\ m.synced = Len(m.files) /\ m.under = <<>>
                  /\ Len(m.files) = Len(l.files) \/ m.stale
  BY <1>1, ProveTail
<1> HIDE DEF pc
<1>4. s.pc = pc /\ s.after = "opening"
  BY <1>2, ClosedTails
<1> HIDE DEF s
<1>5. TailInv(l, m, s)
  BY <1>2, <1>3, <1>4 DEF TailInv, Appending, Committing
<1> QED BY <1>1, <1>3, <1>5, TailStep

LEMMA CloseoutTail ==
    ASSUME SessionInv, TailsInv, NEW t \in Tapes, Closeout(t) PROVE TailsInv'
<1> DEFINE s == [Closed EXCEPT !.pc = "closeout"]
<1>1. Prove(t) /\ session' = [session EXCEPT ![t] = s] /\ log[t].due
  BY DEF Closeout, Become
<1>2. PICK l, m : /\ log' = [log EXCEPT ![t] = l] /\ media' = [media EXCEPT ![t] = m]
                  /\ ~l.open /\ ~l.doubt /\ l.due = log[t].due
                  /\ Accounted(Len(l.files), l.due, m, l.tail, l.synced)
  BY <1>1, ProveTail
<1>3. s.pc = "closeout" /\ s.after = "closed"
  BY ClosedTails
<1> HIDE DEF s
<1>4. TailInv(l, m, s)
  BY <1>1, <1>2, <1>3 DEF TailInv, Appending, Committing
<1> QED BY <1>1, <1>2, <1>4, TailStep

LEMMA ContradictedTail ==
    ASSUME SessionInv, TailsInv, NEW t \in Tapes, OpenContradicted(t) PROVE TailsInv'
<1> DEFINE p == session[t]
           l == log[t]
           h == media[t]
           m == Synced(h)
           c == Len(l.files)
           due == l.due
           names == l.tail
           k == l.synced
<1>1. /\ p.pc = "closed" /\ ~l.open /\ media' = [media EXCEPT ![t] = m]
      /\ log' = [log EXCEPT ![t] = l] /\ session' = [session EXCEPT ![t] = p]
  BY TailFacts DEF OpenContradicted, At
<1>2. /\ TailInv(l, h, p) /\ MediaOK(h) /\ c \in Nat /\ c <= h.synced /\ names \in Seq(Files)
      /\ k \in Nat /\ due \in BOOLEAN
  BY TailFacts
<1>3. m.files = h.files /\ m.synced = Len(h.files) /\ m.under = <<>> /\ m.stale = h.stale
  BY <1>2, SyncedIs
<1>4. Accounted(c, due, h, names, k)
  BY <1>1, <1>2 DEF TailInv
<1> HIDE DEF p, l, h, m, c, due, names, k
<1>5. Accounted(c, due, m, names, k)
  BY <1>2, <1>3, <1>4, SyncedAccounted
<1> QED BY <1>1, <1>5, ClosedTail DEF c, due, names, k

LEMMA SupersedeTail ==
    ASSUME SessionInv, TailsInv, NEW t \in Tapes, supersede_tail(t) PROVE TailsInv'
<1> DEFINE p == session[t]
           r == [log[t] EXCEPT !.open = FALSE, !.tail = Suffix(t), !.synced = Len(Suffix(t))]
           m == Synced(media[t])
<1>1. /\ p.pc = "closed" /\ media' = [media EXCEPT ![t] = m]
      /\ session' = [session EXCEPT ![t] = p]
  BY TailFacts DEF supersede_tail, At
<1>2. m.files = media[t].files /\ m.synced = Len(media[t].files) /\ m.under = <<>>
  BY TailFacts, SyncedIs
<1> HIDE DEF m
<1>3. r.files = log[t].files /\ Accounted(Len(r.files), r.due, m, r.tail, r.synced)
  BY <1>2, RecoveredTail
<1>4. PICK l : /\ log' = [log EXCEPT ![t] = l] /\ l.files = log[t].files
               /\ l.open \/ (l.due = r.due /\ l.tail = r.tail /\ l.synced = r.synced)
  BY SupersededLog
<1> HIDE DEF p, r
<1>5. ~l.open => Accounted(Len(l.files), l.due, m, l.tail, l.synced)
  BY <1>3, <1>4
<1> QED BY <1>1, <1>4, <1>5, ClosedTail

LEMMA OpeningTail ==
    ASSUME SessionInv, TailsInv, NEW t \in Tapes, Opening(t) PROVE TailsInv'
<1> DEFINE p == session[t]
           k == log[t]
           m == media[t]
           none == <<>>
           l == [k EXCEPT !.open = TRUE, !.tail = none, !.synced = 0]
           s == [p EXCEPT !.pc = "ready"]
<1>1. /\ p.pc = "opening" /\ media' = [media EXCEPT ![t] = m]
      /\ log' = [log EXCEPT ![t] = l] /\ session' = [session EXCEPT ![t] = s]
  BY TailFacts DEF Opening, At, Go, Become
<1>2. /\ TailInv(k, m, p) /\ TapeInv(k, m, p) /\ p \in Sessions /\ k \in Logs
      /\ p.tail.synced \in Nat /\ p.tail.synced <= Len(p.tail.names)
  BY TailFacts
<1>3. p.tail.names = <<>>
  BY <1>1, <1>2 DEF TapeInv
<1>4. p.tail.synced = 0
  BY <1>2, <1>3
<1> HIDE DEF p, k, m, none
<1>5. l.files = k.files /\ l.due = k.due /\ l.doubt = k.doubt /\ l.open
  BY <1>2 DEF Logs
<1>6. s.pc = "ready" /\ s.tail = p.tail
  BY <1>2 DEF Sessions
<1> HIDE DEF l, s
<1>7. TailInv(l, m, s)
  BY <1>1, <1>2, <1>3, <1>4, <1>5, <1>6 DEF TailInv, Appending, Committing
<1> QED BY <1>1, <1>7, TailStep

--------------------------------------------------------------------------------
(* The closeout. *)

(* What a closeout writes over, and as what it is accounted for: by the     *)
(* session that is still open, or by the ending in the log.                 *)
NamesOf(l, s) == IF s.after = "end" THEN s.tail.names ELSE l.tail
SyncedOf(l, s) == IF s.after = "end" THEN s.tail.synced ELSE l.synced

LEMMA ClosingFacts ==
    ASSUME SessionInv, TailsInv, NEW t \in Tapes, session[t].pc \in {"closeout", "publish"}
    PROVE  /\ log[t].due = TRUE /\ ~log[t].doubt /\ log[t].open = (session[t].after = "end")
           /\ NamesOf(log[t], session[t]) \in Seq(Files) /\ SyncedOf(log[t], session[t]) \in Nat
           /\ Accounted(Len(log[t].files), TRUE, media[t], NamesOf(log[t], session[t]),
                        SyncedOf(log[t], session[t]))
<1> DEFINE p == session[t]
           l == log[t]
           m == media[t]
<1>1. /\ TailInv(l, m, p) /\ p.tail.names \in Seq(Files) /\ p.tail.synced \in Nat
      /\ l.tail \in Seq(Files) /\ l.synced \in Nat /\ l.due \in BOOLEAN /\ l.open \in BOOLEAN
      /\ l.doubt \in BOOLEAN /\ p.pc \in {"closeout", "publish"}
  BY TailFacts
<1>2. p.after # "end" => ~l.open
  BY Facts DEF LocalInv, ToldInv
<1> HIDE DEF p, l, m
<1>3. l.due = TRUE /\ ~l.doubt
  BY <1>1 DEF TailInv
<1>4. CASE p.after = "end"
  <2>1. l.open /\ Ends(l, m, p)
    BY <1>1, <1>4 DEF TailInv
  <2>2. Accounted(Len(l.files), TRUE, m, p.tail.names, p.tail.synced)
    BY <1>3, <2>1 DEF Ends
  <2> QED BY <1>1, <1>3, <1>4, <2>1, <2>2 DEF NamesOf, SyncedOf, p, l, m
<1>5. CASE p.after # "end"
  <2>1. Accounted(Len(l.files), TRUE, m, l.tail, l.synced)
    BY <1>1, <1>2, <1>3, <1>5 DEF TailInv
  <2> QED BY <1>1, <1>2, <1>3, <1>5, <2>1 DEF NamesOf, SyncedOf, p, l, m
<1> QED BY <1>4, <1>5

(* A closeout that fails goes back to what it came from. *)
LEMMA RefusedTail ==
    ASSUME SessionInv, TailsInv, NEW t \in Tapes, NEW l, NEW m, NEW v \in Sessions,
           log' = [log EXCEPT ![t] = l], media' = [media EXCEPT ![t] = m],
           session' = [session EXCEPT ![t] = Refused(v)],
           v.after = "end" => l.open /\ Ends(l, m, v),
           ~l.open => Accounted(Len(l.files), l.due, m, l.tail, l.synced)
    PROVE  TailsInv'
<1>1. CASE v.after = "opening"
  <2> DEFINE c == Closed
  <2>1. session' = [session EXCEPT ![t] = c] /\ c.pc = "closed"
    BY <1>1, ClosedFields DEF Refused
  <2> HIDE DEF c
  <2> QED BY <2>1, ClosedTail
<1>2. CASE v.after # "opening"
  <2> DEFINE x == v.after
             s == [v EXCEPT !.pc = x, !.reason = "CloseoutFailed"]
  <2>1. session' = [session EXCEPT ![t] = s] /\ x \in {"closed", "end"}
    BY <1>2 DEF Refused, Sessions
  <2>2. s.pc = x /\ s.tail = v.tail
    <3> HIDE DEF x
    <3> QED BY DEF Sessions
  <2> HIDE DEF s
  <2>3. CASE x = "closed"
    BY <2>1, <2>2, <2>3, ClosedTail
  <2>4. CASE x = "end"
    <3>1. l.open /\ Ends(l, m, s)
      BY <2>2, <2>4 DEF Ends
    <3>2. TailInv(l, m, s)
      BY <2>2, <2>4, <3>1 DEF TailInv, Appending, Committing
    <3> QED BY <2>1, <3>2, TailStep
  <2> QED BY <2>1, <2>3, <2>4
<1> QED BY <1>1, <1>2

(* Evidence that names nothing may name more. *)
LEMMA NamesMore ==
    ASSUME NEW c, NEW due, NEW m, NEW none, none = <<>>, NEW n \in Seq(Files),
           NEW k, k = 0, Accounted(c, due, m, none, k)
    PROVE  Accounted(c, due, m, n, k)
<1>1. \A x : Within(x, none, k) => Within(x, n, k)
  <2>1. Len(none) = 0 /\ Len(n) \in Nat
    OBVIOUS
  <2> SUFFICES ASSUME NEW x, Within(x, none, k) PROVE Within(x, n, k)
    OBVIOUS
  <2>2. Len(x) = 0
    BY <2>1 DEF Within
  <2> QED BY <2>1, <2>2 DEF Within
<1>2. CASE Named(c, m, none, k)
  BY <1>1, <1>2 DEF Named, Accounted
<1>3. CASE ~due /\ OverProved(c, m, none, k)
  BY <1>1, <1>3 DEF OverProved, Accounted
<1>4. CASE due /\ ClosingOut(c, m, none, k)
  BY <1>1, <1>4 DEF ClosingOut, Accounted, Covered
<1>5. CASE ~due /\ Proved(m)
  BY <1>5 DEF Accounted
<1> QED BY <1>2, <1>3, <1>4, <1>5 DEF Accounted

LEMMA WriteCloseoutTail ==
    ASSUME SessionInv, TailsInv, NEW t \in Tapes, write_closeout(t) PROVE TailsInv'
<1> DEFINE p == session[t]
           l == log[t]
           h == media[t]
           c == Len(l.files)
           E == dispatched(p.tail, "sidecar")
           v == IF p.after = "end" THEN [p EXCEPT !.tail = E] ELSE p
           G(f) == Overwritten(Synced(h), c, f)
           w == [v EXCEPT !.pc = "publish"]
           names == NamesOf(l, p)
           k == SyncedOf(l, p)
<1>1. /\ p.pc = "closeout"
      /\ \/ media' = [media EXCEPT ![t] = G("sidecar")] /\ session' = [session EXCEPT ![t] = w]
         \/ session' = [session EXCEPT ![t] = Refused(p)] /\ media' = [media EXCEPT ![t] = h]
         \/ session' = [session EXCEPT ![t] = Refused(v)] /\ media' = [media EXCEPT ![t] = G("half")]
  BY TailFacts DEF write_closeout, At, Become, Committed
<1>2. /\ TailInv(l, h, p) /\ MediaOK(h) /\ p \in Sessions /\ log' = [log EXCEPT ![t] = l]
      /\ c \in Nat /\ c <= h.synced /\ p.tail \in Evidence
      /\ p.tail.synced <= Len(p.tail.names) /\ p.tail.synced \in Nat
  BY TailFacts DEF write_closeout
<1>3. /\ l.due = TRUE /\ ~l.doubt /\ l.open = (p.after = "end") /\ names \in Seq(Files) /\ k \in Nat
      /\ Accounted(c, TRUE, h, names, k)
  BY <1>1, ClosingFacts
<1>4. ASSUME NEW f \in {"sidecar", "half"}
      PROVE  Accounted(c, TRUE, G(f), names, k) /\ Len(G(f).files) = c + 1
  <2> DEFINE g == G(f)
  <2>1. g = Overwritten(Synced(h), c, f)
    OBVIOUS
  <2>2. MediaOK(h) /\ c \in Nat /\ c <= h.synced
    BY <1>2
  <2> HIDE DEF g, h, c, names, k
  <2>3. Accounted(c, TRUE, g, names, k) /\ Len(g.files) = c + 1
    BY <1>3, <2>1, <2>2, CloseoutAccounted
  <2> QED BY <2>3 DEF g
<1>5. E \in Evidence /\ E.names = Append(p.tail.names, "sidecar") /\ E.synced = p.tail.synced
  BY <1>2, DispatchedOK DEF Files
<1>6. p.after = "end" => /\ p.tail.names = <<>> /\ p.tail.synced = 0
                         /\ names = p.tail.names /\ k = p.tail.synced
  <2>1. p.after = "end" => p.tail.names = <<>>
    BY <1>1, <1>2 DEF TailInv
  <2>2. p.tail.names = <<>> => p.tail.synced = 0
    BY <1>2
  <2> QED BY <2>1, <2>2 DEF NamesOf, SyncedOf
<1>7. p.after # "end" => names = l.tail /\ k = l.synced
  BY DEF NamesOf, SyncedOf
<1> HIDE DEF p, l, h, c, E, G, names, k
<1>8. /\ v \in Sessions /\ v.after = p.after /\ v.tail = IF p.after = "end" THEN E ELSE p.tail
  <2>1. CASE p.after = "end"
    <3> DEFINE x == [p EXCEPT !.tail = E]
    <3>1. x \in Sessions /\ x.tail = E /\ x.after = p.after
      BY <1>2, <1>5 DEF Sessions
    <3> HIDE DEF x
    <3>2. v = x
      BY <2>1 DEF x
    <3> QED BY <2>1, <3>1, <3>2
  <2>2. CASE p.after # "end"
    BY <1>2, <2>2
  <2> QED BY <2>1, <2>2
<1> HIDE DEF v
<1>9. w.pc = "publish" /\ w.after = v.after /\ w.tail = v.tail
  BY <1>8 DEF Sessions
<1> HIDE DEF w
<1>10. ASSUME NEW m, Accounted(c, TRUE, m, names, k)
       PROVE  /\ p.after = "end" => l.open /\ Ends(l, m, p) /\ Ends(l, m, v) /\ Ends(l, m, w)
              /\ ~l.open => Accounted(Len(l.files), l.due, m, l.tail, l.synced)
  <2>1. CASE p.after = "end"
    <3> DEFINE n == Append(p.tail.names, "sidecar")
    <3>1. n \in Seq(Files)
      BY <1>5 DEF Evidence
    <3> HIDE DEF n
    <3>2. names = <<>> /\ k = 0
      BY <1>6, <2>1
    <3>3. Accounted(c, TRUE, m, n, k)
      BY <1>10, <3>1, <3>2, NamesMore
    <3>4. Ends(l, m, p)
      BY <1>3, <1>6, <1>10, <2>1 DEF Ends, c
    <3>5. v.tail.names = n /\ v.tail.synced = k
      BY <1>5, <1>6, <1>8, <2>1 DEF n
    <3>6. Ends(l, m, v) /\ Ends(l, m, w)
      BY <1>3, <1>9, <3>3, <3>5 DEF Ends, c
    <3> QED BY <1>3, <2>1, <3>4, <3>6
  <2>2. CASE p.after # "end"
    BY <1>3, <1>7, <1>10, <2>2 DEF c
  <2> QED BY <2>1, <2>2
<1>11. CASE media' = [media EXCEPT ![t] = G("sidecar")] /\ session' = [session EXCEPT ![t] = w]
  <2> DEFINE m == G("sidecar")
  <2>1. Accounted(c, TRUE, m, names, k) /\ Len(m.files) = c + 1
    BY <1>4
  <2>2. media' = [media EXCEPT ![t] = m]
    BY <1>11
  <2> HIDE DEF m
  <2>3. /\ p.after = "end" => l.open /\ Ends(l, m, w)
        /\ ~l.open => Accounted(Len(l.files), l.due, m, l.tail, l.synced)
    BY <1>10, <2>1
  <2>4. TailInv(l, m, w)
    BY <1>3, <1>8, <1>9, <2>1, <2>3 DEF TailInv, Appending, Committing, c
  <2> QED BY <1>2, <1>11, <2>2, <2>4, TailStep
<1>12. CASE session' = [session EXCEPT ![t] = Refused(p)] /\ media' = [media EXCEPT ![t] = h]
  <2>1. /\ p.after = "end" => l.open /\ Ends(l, h, p)
        /\ ~l.open => Accounted(Len(l.files), l.due, h, l.tail, l.synced)
    BY <1>3, <1>10
  <2> QED BY <1>2, <1>12, <2>1, RefusedTail
<1>13. CASE /\ session' = [session EXCEPT ![t] = Refused(v)]
            /\ media' = [media EXCEPT ![t] = G("half")]
  <2> DEFINE m == G("half")
  <2>1. Accounted(c, TRUE, m, names, k)
    BY <1>4
  <2>2. media' = [media EXCEPT ![t] = m]
    BY <1>13
  <2> HIDE DEF m
  <2>3. /\ v.after = "end" => l.open /\ Ends(l, m, v)
        /\ ~l.open => Accounted(Len(l.files), l.due, m, l.tail, l.synced)
    BY <1>8, <1>10, <2>1
  <2> QED BY <1>2, <1>8, <1>13, <2>2, <2>3, RefusedTail
<1> QED BY <1>1, <1>11, <1>12, <1>13

LEMMA PublishTail ==
    ASSUME SessionInv, TailsInv, NEW t \in Tapes, publish_closed_out(t) PROVE TailsInv'
<1> DEFINE p == session[t]
           k == log[t]
           h == media[t]
           q == Append(k.files, "sidecar")
           none == <<>>
           l == [k EXCEPT !.files = q, !.due = FALSE, !.tail = none, !.synced = 0]
           kd == [k EXCEPT !.doubt = TRUE]
           ld == [l EXCEPT !.doubt = TRUE]
           E == NoEvidence
           e == [p EXCEPT !.tail = E]
           x == p.after
           m == Synced(h)
           r == [e EXCEPT !.pc = x]
           c == Len(k.files)
           names == NamesOf(k, p)
           y == SyncedOf(k, p)
<1>1. /\ p.pc = "publish"
      /\ \/ /\ log' = [log EXCEPT ![t] = l] /\ media' = [media EXCEPT ![t] = m]
            /\ session' = [session EXCEPT ![t] = IF x = "closed" THEN Closed ELSE r]
         \/ /\ log' = log /\ session' = [session EXCEPT ![t] = Refused(p)]
            /\ \E g \in Remains(h) \cup {m} : media' = [media EXCEPT ![t] = g]
         \/ /\ log' = [log EXCEPT ![t] = l] /\ media' = [media EXCEPT ![t] = m]
            /\ session' = [session EXCEPT ![t] = Refused(e)]
         \/ /\ media' = [media EXCEPT ![t] = m] /\ session' = [session EXCEPT ![t] = Closed]
            /\ log' = [log EXCEPT ![t] = kd] \/ log' = [log EXCEPT ![t] = ld]
  <2> DEFINE co == [log EXCEPT ![t].files = Append(@, "sidecar"), ![t].due = FALSE,
                               ![t].tail = <<>>, ![t].synced = 0]
  <2>1. log \in [Tapes -> Logs]
    BY DEF SessionInv, SessionTypes
  <2>2. co = [log EXCEPT ![t] = l]
    BY <2>1
  <2>3. InDoubt(t, log) = [log EXCEPT ![t] = kd]
    BY DEF InDoubt
  <2>4. InDoubt(t, co) = [log EXCEPT ![t] = ld]
    <3> HIDE DEF l, co
    <3> QED BY <2>1, <2>2 DEF InDoubt
  <2> HIDE DEF l, ld, kd
  <2> QED BY <2>2, <2>3, <2>4 DEF publish_closed_out, At, Become
<1>2. /\ TailInv(k, h, p) /\ MediaOK(h) /\ p \in Sessions /\ k \in Logs
      /\ log = [log EXCEPT ![t] = k] /\ c \in Nat /\ c <= h.synced
  BY TailFacts
<1>3. /\ k.due = TRUE /\ ~k.doubt /\ k.open = (x = "end") /\ names \in Seq(Files) /\ y \in Nat
      /\ Accounted(c, TRUE, h, names, y)
  BY <1>1, ClosingFacts
<1>4. Len(h.files) = c + 1
  BY <1>1, <1>2 DEF TailInv
<1>5. q \in Seq(Objects \cup {"sidecar"}) /\ Len(q) = c + 1 /\ none \in Seq(Files)
  BY SidecarSet
<1>6. /\ MediaOK(m) /\ m.files = h.files /\ m.synced = Len(h.files) /\ m.under = <<>>
      /\ m.stale = h.stale
  BY <1>2, SyncedIs
<1>7. E \in Evidence /\ x \in {"closed", "opening", "end"}
  BY <1>2, NoEvidenceOK DEF Sessions
<1>8. /\ x = "end" => names = p.tail.names /\ y = p.tail.synced
      /\ x # "end" => names = k.tail /\ y = k.synced
  BY DEF NamesOf, SyncedOf
<1>30. p.after = x
  OBVIOUS
<1> HIDE DEF p, k, h, q, none, m, E, x, c, names, y
<1>9. /\ l \in Logs /\ l.files = q /\ l.open = k.open /\ l.due = FALSE /\ l.tail = none
      /\ l.synced = 0 /\ l.doubt = k.doubt
      /\ kd.files = k.files /\ kd.open = k.open /\ kd.due = k.due /\ kd.tail = k.tail
      /\ kd.synced = k.synced
  BY <1>2, <1>5 DEF Logs
<1> HIDE DEF l, kd
<1>10. /\ ld.files = l.files /\ ld.open = l.open /\ ld.due = l.due /\ ld.tail = l.tail
       /\ ld.synced = l.synced
  BY <1>9 DEF Logs
<1> HIDE DEF ld
<1>11. e \in Sessions /\ e.tail = E /\ e.after = x
  BY <1>2, <1>7, <1>30 DEF Sessions
<1> HIDE DEF e
<1>12. Closed.pc = "closed"
  BY ClosedFields
<1>13. /\ m.synced = Len(m.files) /\ m.under = <<>> /\ Len(m.files) = Len(l.files)
  BY <1>4, <1>5, <1>6, <1>9
<1>14. Accounted(Len(l.files), l.due, m, l.tail, l.synced)
  <2> DEFINE z == Len(l.files)
             due == l.due
             n == l.tail
  <2>1. z \in Nat /\ due \in BOOLEAN /\ n \in Seq(Files) /\ Len(m.files) = z
    BY <1>9, <1>13 DEF Logs
  <2> HIDE DEF z, due, n
  <2>2. Accounted(z, due, m, n, 0)
    BY <1>6, <1>13, <2>1, EmptyAccounted
  <2> QED BY <1>9, <2>2 DEF z, due, n
<1>15. ASSUME NEW s, s.tail = E PROVE Ends(l, m, s)
  BY <1>6, <1>9, <1>13, <1>15, ClearEnds DEF E
<1>16. Accounted(c, TRUE, m, names, y)
  BY <1>2, <1>3, <1>6, SyncedAccounted
<1>17. CASE /\ log' = [log EXCEPT ![t] = l] /\ media' = [media EXCEPT ![t] = m]
            /\ session' = [session EXCEPT ![t] = IF x = "closed" THEN Closed ELSE r]
  <2>1. CASE x = "closed"
    <3>1. session' = [session EXCEPT ![t] = Closed]
      BY <1>17, <2>1
    <3> QED BY <1>12, <1>14, <1>17, <3>1, ClosedTail
  <2>2. CASE x # "closed"
    <3>1. session' = [session EXCEPT ![t] = r] /\ x \in {"opening", "end"}
      BY <1>7, <1>17, <2>2
    <3>2. r.pc = x /\ r.tail = E
      BY <1>11 DEF Sessions
    <3> HIDE DEF r
    <3>3. Ends(l, m, r)
      BY <1>15, <3>2
    <3>4. TailInv(l, m, r)
      BY <1>3, <1>9, <1>13, <1>14, <3>1, <3>2, <3>3 DEF TailInv, Appending, Committing
    <3> QED BY <1>17, <3>1, <3>4, TailStep
  <2> QED BY <2>1, <2>2
<1>18. CASE /\ log' = log /\ session' = [session EXCEPT ![t] = Refused(p)]
            /\ \E g \in Remains(h) \cup {m} : media' = [media EXCEPT ![t] = g]
  <2>1. PICK g \in Remains(h) \cup {m} : media' = [media EXCEPT ![t] = g]
    BY <1>18
  <2>2. Accounted(c, TRUE, g, names, y)
    <3>1. CASE g = m
      BY <1>16, <3>1
    <3>2. CASE g \in Remains(h)
      BY <1>2, <1>3, <3>2, RemainsAccounted
    <3> QED BY <2>1, <3>1, <3>2
  <2>3. p.after = "end" => k.open /\ Ends(k, g, p)
    BY <1>3, <1>8, <1>30, <2>2 DEF Ends, c
  <2>4. ~k.open => Accounted(Len(k.files), k.due, g, k.tail, k.synced)
    BY <1>3, <1>8, <2>2 DEF c
  <2>5. log' = [log EXCEPT ![t] = k]
    BY <1>2, <1>18
  <2> QED BY <1>2, <1>18, <2>1, <2>3, <2>4, <2>5, RefusedTail
<1>19. CASE /\ log' = [log EXCEPT ![t] = l] /\ media' = [media EXCEPT ![t] = m]
            /\ session' = [session EXCEPT ![t] = Refused(e)]
  <2>1. e.after = "end" => l.open /\ Ends(l, m, e)
    BY <1>3, <1>9, <1>11, <1>15
  <2> QED BY <1>11, <1>14, <1>19, <2>1, RefusedTail
<1>20. CASE /\ media' = [media EXCEPT ![t] = m] /\ session' = [session EXCEPT ![t] = Closed]
            /\ log' = [log EXCEPT ![t] = kd] \/ log' = [log EXCEPT ![t] = ld]
  <2>1. ~kd.open => Accounted(Len(kd.files), kd.due, m, kd.tail, kd.synced)
    BY <1>3, <1>8, <1>9, <1>16 DEF c
  <2>2. Accounted(Len(ld.files), ld.due, m, ld.tail, ld.synced)
    BY <1>10, <1>14
  <2> QED BY <1>12, <1>20, <2>1, <2>2, ClosedTail
<1> QED BY <1>1, <1>17, <1>18, <1>19, <1>20

--------------------------------------------------------------------------------
(* The host restarts. *)

LEMMA RestartTail ==
    ASSUME SessionInv, TailsInv, Restart,
           \A t \in Tapes : \/ media'[t] = media[t]
                            \/ media'[t] \in Remains(media[t])
    PROVE  TailsInv'
<1>1. ASSUME NEW t \in Tapes PROVE TailInv(log'[t], media'[t], session'[t])
  <2> DEFINE k == log[t]
             l == log'[t]
             h == media[t]
             m == media'[t]
             s == session'[t]
             c == Len(k.files)
             due == k.due
             names == k.tail
             y == k.synced
  <2>1. /\ TailInv(k, h, session[t]) /\ MediaOK(h) /\ k \in Logs /\ c \in Nat /\ c <= h.synced
        /\ due \in BOOLEAN /\ names \in Seq(Files) /\ y \in Nat
    BY TailFacts
  <2>2. l = k \/ l = [k EXCEPT !.doubt = FALSE]
    BY DEF Restart
  <2>3. s.pc = "closed"
    BY ClosedFields DEF Restart
  <2>4. m = h \/ m \in Remains(h)
    OBVIOUS
  <2> HIDE DEF k, l, h, m, s
  <2>5. l.files = k.files /\ l.due = k.due /\ l.open = k.open /\ l.tail = k.tail
        /\ l.synced = k.synced
    BY <2>1, <2>2 DEF Logs
  <2>6. ~k.open => Accounted(c, due, h, names, y)
    BY <2>1 DEF TailInv
  <2> HIDE DEF c, due, names, y
  <2>7. ~k.open => Accounted(c, due, m, names, y)
    BY <2>1, <2>4, <2>6, RemainsAccounted
  <2>8. ~l.open => Accounted(Len(l.files), l.due, m, l.tail, l.synced)
    BY <2>5, <2>7 DEF c, due, names, y
  <2>9. TailInv(l, m, s)
    BY <2>3, <2>8 DEF TailInv, Appending, Committing
  <2> QED BY <2>9 DEF l, m, s
<1> QED BY <1>1 DEF TailsInv, TailInv, Accounted, Named, OverProved, ClosingOut, Proved, Ends,
                    Within, Covered

LEMMA PowerLossTail ==
    ASSUME SessionInv, TailsInv, NEW t \in Tapes, PowerLoss(t) PROVE TailsInv'
<1>1. PICK g \in Remains(media[t]) : media' = [media EXCEPT ![t] = g]
  BY DEF PowerLoss
<1>2. media \in [Tapes -> Tape]
  BY DEF SessionInv, SessionTypes
<1>3. \A u \in Tapes : media'[u] = media[u] \/ media'[u] \in Remains(media[u])
  BY <1>1, <1>2
<1> QED BY <1>3, RestartTail DEF PowerLoss

LEMMA CrashTail ==
    ASSUME SessionInv, TailsInv, Crash PROVE TailsInv'
BY RestartTail DEF Crash

LEMMA TailSame ==
    ASSUME TailsInv, UNCHANGED <<log, media, session>> PROVE TailsInv'
<1>1. \A t \in Tapes : TailInv(log'[t], media'[t], session'[t])
  BY DEF TailsInv
<1> QED BY <1>1 DEF TailsInv, TailInv, Accounted, Named, OverProved, ClosingOut, Proved, Ends,
                    Within, Covered

LEMMA AuditTail ==
    ASSUME SessionInv, TailsInv, NEW t \in Tapes, FinishMountedInvocation(t) \/ AuditFails(t)
    PROVE  TailsInv'
<1> DEFINE p == session[t]
           none == <<>>
           s == [p EXCEPT !.pc = "finish", !.batch = none]
<1>1. /\ log' = log /\ media' = media
      /\ \/ session' = session
         \/ p.pc = "ready" /\ session' = [session EXCEPT ![t] = s]
  BY DEF FinishMountedInvocation, AuditFails, At, Become
<1>2. CASE session' = session
  BY <1>1, <1>2, TailSame
<1>3. CASE p.pc = "ready" /\ session' = [session EXCEPT ![t] = s]
  <2>1. p \in Sessions /\ log' = [log EXCEPT ![t] = log[t]]
    BY <1>1, TailFacts
  <2> HIDE DEF p, none
  <2>2. s.tail = p.tail /\ s.pc = "finish"
    BY <2>1 DEF Sessions
  <2> HIDE DEF s
  <2> QED BY <1>1, <1>3, <2>1, <2>2, AppendingStops DEF Appending, p
<1> QED BY <1>1, <1>2, <1>3

LEMMA TailInit == Init => TailsInv
<1> SUFFICES ASSUME Init, NEW t \in Tapes PROVE TailInv(log[t], media[t], session[t])
  BY DEF TailsInv
<1> DEFINE l == log[t]
           m == media[t]
           s == session[t]
           none == <<>>
<1>1. /\ l = [files |-> none, open |-> FALSE, due |-> FALSE, plan |-> FALSE, tail |-> none,
              synced |-> 0, doubt |-> FALSE]
      /\ m = [files |-> none, synced |-> 0, under |-> none, stale |-> FALSE] /\ s = Closed
  BY DEF Init
<1>2. none \in Seq(Files) /\ Len(none) = 0
  OBVIOUS
<1> HIDE DEF l, m, s
<1>3. none = <<>>
  OBVIOUS
<1> HIDE DEF none
<1>4. /\ m \in Tape /\ m.files = none /\ m.synced = 0 /\ m.under = none
      /\ l.files = none /\ l.due = FALSE /\ l.tail = none /\ l.synced = 0 /\ l.doubt = FALSE
  BY <1>1, <1>2 DEF Tape
<1>5. Accounted(0, FALSE, m, none, 0)
  <2> DEFINE c == 0
  <2>1. MediaOK(m) /\ c \in Nat /\ m.synced = Len(m.files) /\ Len(m.files) = c
    BY <1>2, <1>4 DEF MediaOK
  <2> HIDE DEF c
  <2>2. Accounted(c, FALSE, m, none, 0)
    BY <1>2, <1>3, <1>4, <2>1, EmptyAccounted
  <2> QED BY <2>2 DEF c
<1>6. Accounted(Len(l.files), l.due, m, l.tail, l.synced)
  BY <1>2, <1>4, <1>5
<1>7. s.pc = "closed"
  BY <1>1, ClosedFields
<1>8. TailInv(l, m, s)
  BY <1>6, <1>7 DEF TailInv, Appending, Committing
<1> QED BY <1>8 DEF l, m, s

LEMMA TailNext == SessionInv /\ TailsInv /\ [Next]_vars => TailsInv'
<1> SUFFICES ASSUME SessionInv, TailsInv, [Next]_vars PROVE TailsInv'
  OBVIOUS
<1>1. CASE UNCHANGED vars
  BY <1>1, TailSame DEF vars
<1>2. ASSUME NEW t \in Tapes, Actor(t) PROVE TailsInv'
  <2>1. CASE Opening(t) \/ maybe_replay_pool_write(t)
    BY <2>1, OpeningTail, ReplayTail
  <2>2. CASE Write(t) \/ WriteRefused(t) \/ Rollover(t) \/ WriteFails(t)
    BY <2>2, WriteTail, WriteRefusedTail, RolloverTail, WriteFailsTail
  <2>3. CASE Synchronize(t) \/ complete_report(t) \/ project_tape_log(t)
    BY <2>3, SynchronizeTail, CompleteReportTail, ProjectTail
  <2>4. CASE decide_live_finalization(t) \/ BarrierDone(t)
    BY <2>4, DecideTail, BarrierDoneTail
  <2>5. CASE Finish(t) \/ End(t) \/ write_closeout(t) \/ publish_closed_out(t)
    BY <2>5, FinishTail, EndTail, WriteCloseoutTail, PublishTail
  <2> QED BY <1>2, <2>1, <2>2, <2>3, <2>4, <2>5 DEF Actor
<1>3. ASSUME NEW t \in Tapes, Timer(t) PROVE TailsInv'
  BY <1>3, TimersTail DEF Timer
<1>4. ASSUME NEW t \in Tapes, ReleaseFence(t) \/ scan(t) PROVE TailsInv'
  BY <1>4, TailSame DEF ReleaseFence, scan
<1>5. ASSUME NEW t \in Tapes,
             \/ Open(t) \/ Closeout(t) \/ OpenContradicted(t) \/ supersede_tail(t) \/ PowerLoss(t)
      PROVE  TailsInv'
  BY <1>5, OpenTail, CloseoutTail, ContradictedTail, SupersedeTail, PowerLossTail
<1>6. ASSUME NEW t \in Tapes,
             \/ \E o \in Objects : reserve(t, o)
             \/ handle_checkpoint(t) \/ handle_close(t) \/ handle_abort(t)
      PROVE  TailsInv'
  BY <1>6, ReserveTail, CheckpointTail, CloseTail, AbortTail
<1>7. ASSUME NEW t \in Tapes, FinishMountedInvocation(t) \/ AuditFails(t) PROVE TailsInv'
  BY <1>7, AuditTail
<1> QED BY <1>1, <1>2, <1>3, <1>4, <1>5, <1>6, <1>7, CrashTail DEF Next

(* What a tape holds behind its log is accounted for at every step of every *)
(* session: by the evidence of the session (SessionTail) while it is open,  *)
(* by the record of its ending (end_session) from then on, whatever the     *)
(* drive loses and whenever the host restarts.                              *)
THEOREM TailsInvariance == Spec => []TailsInv
BY SessionInvariance, TailInit, TailNext, PTL DEF Spec

(* A session that ended in the log leaves a tape that is admitted again     *)
(* without an operator: what its drive kept of what the session wrote, or   *)
(* of the closeout after it, is within what the ending names or is the      *)
(* closeout that is due (SessionTail, end_session, admit_append_boundary).  *)
THEOREM EndedIsReadmitted == Spec => []Readmitted
<1>1. SessionInv /\ TailsInv => Readmitted
  <2> SUFFICES ASSUME SessionInv, TailsInv, NEW t \in Tapes, ~log[t].open, ~media[t].stale
               PROVE  Admitted(t)
    BY DEF Readmitted
  <2>1. Accounted(Len(log[t].files), log[t].due, media[t], log[t].tail, log[t].synced)
    BY TailFacts DEF TailInv
  <2> QED BY <2>1, AccountedAdmitted
<1> QED BY <1>1, SessionInvariance, TailsInvariance, PTL
================================================================================
