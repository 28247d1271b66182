---------------------------- MODULE BrowserProofs ---------------------------
(***************************************************************************)
(* Proofs about the parts that run in a browser.  About the playground's   *)
(* worker with a client that posts anything, and about the page with this  *)
(* worker, for every number of requests, commands and retries.  About      *)
(* WasmWorker, for every set of names, modules and timeouts, every depth   *)
(* of frames and every number of worker VMs.                               *)
(***************************************************************************)
EXTENDS Playground, WasmWorker, SequencesExt, FiniteSetTheorems,
        SequenceTheorems, WellFoundedInduction, TLAPS

-----------------------------------------------------------------------------
(* Sequences and numbers *)

(* SetToSeq lists every element of a finite set once. *)
LEMMA SetToSeqProperties ==
  ASSUME NEW S, IsFiniteSet(S)
  PROVE  /\ Cardinality(S) \in Nat
         /\ SetToSeq(S) \in [1 .. Cardinality(S) -> S]
         /\ \A i, j \in 1 .. Cardinality(S) : SetToSeq(S)[i] = SetToSeq(S)[j] => i = j
         /\ \A x \in S : \E i \in 1 .. Cardinality(S) : SetToSeq(S)[i] = x
<1>. DEFINE n == Cardinality(S)
            f == SetToSeq(S)
<1>1. n \in Nat /\ ExistsBijection(1 .. n, S)
  BY FS_CardinalityType
<1>2. \E g \in [1 .. n -> S] : IsInjective(g)
  BY <1>1 DEF ExistsBijection, Bijection, Injection
<1>3. f \in [1 .. n -> S] /\ IsInjective(f)
  BY <1>2 DEF SetToSeq
<1>. HIDE DEF f
<1>4. \A i, j \in 1 .. n : f[i] = f[j] => i = j
  BY <1>3 DEF IsInjective
<1>5. ASSUME NEW x \in S PROVE \E i \in 1 .. n : f[i] = x
  <2>1. SUFFICES ASSUME \A i \in 1 .. n : f[i] # x PROVE FALSE
    OBVIOUS
  <2>2. f \in [1 .. n -> S \ {x}]
    BY <1>3, <2>1
  <2>3. IsFiniteSet(S \ {x}) /\ Cardinality(S \ {x}) = n - 1
    BY FS_RemoveElement
  <2>4. IsFiniteSet(1 .. n) /\ Cardinality(1 .. n) = n
    <3>. HIDE DEF n
    <3>1. IsFiniteSet(1 .. n) /\ Cardinality(1 .. n) = IF 1 > n THEN 0 ELSE n - 1 + 1
      BY <1>1, FS_Interval
    <3>. QED  BY <1>1, <3>1
  <2>5. Cardinality(S \ {x}) < Cardinality(1 .. n)
    <3>. HIDE DEF n
    <3>. QED  BY <1>1, <2>3, <2>4
  <2>6. \E i, j \in 1 .. n : i # j /\ f[i] = f[j]
    <3>. DEFINE D == 1 .. n
                T == S \ {x}
    <3>1. /\ f \in [D -> T] /\ IsFiniteSet(D) /\ IsFiniteSet(T)
          /\ Cardinality(T) < Cardinality(D)
      BY <2>2, <2>3, <2>4, <2>5
    <3>. HIDE DEF D, T, n
    <3>2. \E i, j \in D : i # j /\ f[i] = f[j]
      BY <3>1, FS_PigeonHole
    <3>. QED  BY <3>2 DEF D
  <2>. QED  BY <1>4, <2>6
<1>. QED  BY <1>1, <1>3, <1>4, <1>5 DEF f

-----------------------------------------------------------------------------
(* The worker's invariant *)

Message == [id : Ids, action : Actions]

SeqIds(s) == {s[i].id : i \in DOMAIN s}
DistinctIds(s) == \A i, j \in DOMAIN s : s[i].id = s[j].id => i = j

\* Five sets of ids of which no two share one: the requests in the inbox, in
\* the outbox, awaiting the start, awaiting a refetch, and answered.
Apart(I, O, S, R, D) ==
  /\ I \cap (O \cup S \cup R \cup D) = {}
  /\ O \cap (S \cup R \cup D) = {}
  /\ S \cap (R \cup D) = {}
  /\ R \cap D = {}

\* Every request is in one place, once.
OnePlace ==
  /\ DistinctIds(inbox) /\ DistinctIds(outbox)
  /\ Apart(SeqIds(inbox), SeqIds(outbox), starting.ids, refetching, delivered)
  /\ SeqIds(inbox) \cup SeqIds(outbox) \cup starting.ids \cup refetching \cup delivered
       \subseteq 1 .. posted

\* A load promise knows its loads, and the module is set when its library is
\* fetched and not before.
StartInv ==
  /\ starting.stage = "none" <=> starting.ids = {}
  /\ starting.stage = "library" => runtime
  /\ starting.stage = "import" => ~runtime

WorkerInv == WorkerTypeOK /\ NothingHalfLoaded /\ OnePlace /\ StartInv

-----------------------------------------------------------------------------
(* The page's invariant *)

\* The module, its library and a session that can import from it.
Loaded == runtime /\ packLoaded /\ session.live /\ session.library

\* Until the worker's script runs, and for ever if it fails, the worker has
\* done nothing.
Untouched ==
  /\ outbox = <<>> /\ starting = NoStart /\ delivered = {}
  /\ ~runtime /\ session = NoSession /\ ~ready

\* The page waits for one request at most: a load while it is not ready, or
\* a command's.
OneAwaited ==
  /\ loading.on => ~ready
  /\ ~loading.on => loading = NoLoad
  /\ command.id # 0 => ready /\ busy
  /\ busy /\ command.id = 0 => loading.on

\* The requests that the worker or the page still has to deal with.
InWork == SeqIds(inbox) \cup SeqIds(outbox) \cup starting.ids

\* Unless the script failed, they are the one the page waits for; and no
\* request has disappeared.
WorkInv ==
  /\ script # "failed" => InWork = Awaited
  /\ Awaited \subseteq 1 .. posted /\ Awaited \cap delivered = {}
  /\ 1 .. posted \subseteq InWork \cup delivered

\* What an answer on its way tells the page is still so when it arrives.
AnswerCurrent(r) ==
  /\ r.id = loading.id /\ r.ok => Loaded
  /\ r.id = loading.id /\ r.ok => (r.cont <=> session.cont)
  /\ r.id = command.id => session.broken \/ (r.cont <=> session.cont)

\* A session under a set module has the library, and none is made before
\* the library is there.
SessionInv ==
  /\ ready => Loaded
  /\ runtime /\ packLoaded => session.live /\ session.library
  /\ starting.stage = "library" => ~session.live

\* Requests that the page can still post: the attempts left in this round,
\* the waiting command's, and those of the commands not yet given, each of
\* which may begin a round of attempts and posts its own request.
AttemptsLeft == IF loading.on THEN Retries - loading.attempt + (IF loading.id = 0 THEN 1 ELSE 0)
                              ELSE 0
CommandLeft == IF busy /\ command.id = 0 THEN 1 ELSE 0
RoundsLeft(c) == (Retries + 2) * (MaxCommands - c)

PostedBound == posted + AttemptsLeft + CommandLeft + RoundsLeft(commands) <= MaxRequests

PageTypeOK ==
  /\ script \in {"loading", "running", "failed"}
  /\ ready \in BOOLEAN /\ prompt \in BOOLEAN /\ cleared \in BOOLEAN
  /\ loading \in [on : BOOLEAN, attempt : 0 .. Retries, id : 0 .. MaxRequests]
  /\ command \in [action : {"none", "execute", "reset"}, id : 0 .. MaxRequests]
  /\ commands \in 0 .. MaxCommands

PageInv ==
  /\ PageTypeOK
  /\ refetching = {}
  /\ script # "running" => Untouched
  /\ WorkInv
  /\ OneAwaited
  /\ \A i \in DOMAIN inbox : inbox[i].id = loading.id => inbox[i].action = "load"
  /\ \A i \in DOMAIN outbox : AnswerCurrent(outbox[i])
  /\ SessionInv
  /\ PromptAgrees
  /\ PostedBound

IInv == WorkerInv /\ PageInv

-----------------------------------------------------------------------------
(* Queues and the ids in them *)

(* A message at the end of a queue. *)
LEMMA AppendIds ==
  ASSUME NEW S, NEW s \in Seq(S), NEW r \in S
  PROVE  /\ Append(s, r) \in Seq(S)
         /\ SeqIds(Append(s, r)) = SeqIds(s) \cup {r.id}
         /\ DistinctIds(s) /\ r.id \notin SeqIds(s) => DistinctIds(Append(s, r))
<1>. DEFINE n == Len(s)
            t == Append(s, r)
<1>1. /\ n \in Nat /\ DOMAIN s = 1 .. n /\ t \in Seq(S) /\ Len(t) = n + 1
      /\ \A i \in 1 .. n : t[i] = s[i]
      /\ t[n + 1] = r
  BY AppendProperties, LenProperties
<1>. HIDE DEF t
<1>2. DOMAIN t = 1 .. (n + 1)
  BY <1>1, LenProperties
<1>. HIDE DEF n
<1>3. \A i \in DOMAIN t : i \in DOMAIN s \/ i = n + 1
  BY <1>1, <1>2
<1>4. \A i \in DOMAIN s : i \in DOMAIN t /\ t[i] = s[i]
  BY <1>1, <1>2
<1>5. n + 1 \in DOMAIN t
  BY <1>1, <1>2
<1>6. SeqIds(t) = SeqIds(s) \cup {r.id}
  BY <1>1, <1>3, <1>4, <1>5 DEF SeqIds
<1>7. ASSUME DistinctIds(s), r.id \notin SeqIds(s) PROVE DistinctIds(t)
  <2>1. \A i \in DOMAIN s : t[i].id # t[n + 1].id
    BY <1>1, <1>4, <1>7 DEF SeqIds
  <2>. QED  BY <1>3, <1>4, <1>7, <2>1 DEF DistinctIds
<1>. QED  BY <1>1, <1>6, <1>7 DEF t

(* The first message taken out of a queue. *)
LEMMA TailIds ==
  ASSUME NEW S, NEW s \in Seq(S), s # <<>>
  PROVE  /\ Head(s) \in S /\ Tail(s) \in Seq(S) /\ 1 \in DOMAIN s /\ Head(s) = s[1]
         /\ SeqIds(s) = SeqIds(Tail(s)) \cup {Head(s).id}
         /\ DistinctIds(s) => DistinctIds(Tail(s)) /\ Head(s).id \notin SeqIds(Tail(s))
         /\ \A i \in DOMAIN Tail(s) : i + 1 \in DOMAIN s /\ Tail(s)[i] = s[i + 1]
<1>. DEFINE n == Len(s)
            t == Tail(s)
            h == Head(s)
<1>1. n \in Nat \ {0} /\ DOMAIN s = 1 .. n
  BY EmptySeq, LenProperties
<1>2. h \in S /\ t \in Seq(S) /\ Len(t) = n - 1 /\ \A i \in 1 .. Len(t) : t[i] = s[i + 1]
  BY HeadTailProperties
<1>3. h = s[1]
  OBVIOUS
<1>. HIDE DEF t, h
<1>4. DOMAIN t = 1 .. (n - 1)
  BY <1>2, LenProperties
<1>. HIDE DEF n
<1>5. /\ \A i \in DOMAIN t : i + 1 \in DOMAIN s /\ t[i] = s[i + 1] /\ i + 1 # 1 /\ i \in Int
      /\ 1 \in DOMAIN s
      /\ \A i \in DOMAIN s : i = 1 \/ (i - 1 \in DOMAIN t /\ t[i - 1] = s[i])
  <2>1. /\ \A i \in 1 .. (n - 1) : i \in Int /\ i + 1 \in 1 .. n /\ i + 1 # 1
        /\ 1 \in 1 .. n
        /\ \A i \in 1 .. n : i = 1 \/ (i - 1 \in 1 .. (n - 1) /\ (i - 1) + 1 = i)
    BY <1>1
  <2>2. Len(t) = n - 1 /\ \A i \in 1 .. (n - 1) : t[i] = s[i + 1]
    BY <1>2
  <2>. QED  BY <1>1, <1>4, <2>1, <2>2
<1>6. SeqIds(s) = SeqIds(t) \cup {h.id}
  <2>1. ASSUME NEW i \in DOMAIN s PROVE s[i].id \in SeqIds(t) \cup {h.id}
    BY <1>3, <1>5 DEF SeqIds
  <2>2. ASSUME NEW i \in DOMAIN t PROVE t[i].id \in SeqIds(s)
    BY <1>5 DEF SeqIds
  <2>3. h.id \in SeqIds(s)
    BY <1>3, <1>5 DEF SeqIds
  <2>4. SeqIds(s) \subseteq SeqIds(t) \cup {h.id}
    BY <2>1 DEF SeqIds
  <2>5. SeqIds(t) \subseteq SeqIds(s)
    BY <2>2 DEF SeqIds
  <2>. QED  BY <2>3, <2>4, <2>5
<1>7. ASSUME DistinctIds(s) PROVE DistinctIds(t) /\ h.id \notin SeqIds(t)
  <2>1. ASSUME NEW i \in DOMAIN t, NEW j \in DOMAIN t, t[i].id = t[j].id PROVE i = j
    <3>1. i + 1 = j + 1
      BY SMTT(60), <1>5, <1>7, <2>1 DEF DistinctIds
    <3>. QED  BY <1>5, <3>1
  <2>2. ASSUME NEW i \in DOMAIN t, t[i].id = h.id PROVE FALSE
    BY <1>3, <1>5, <1>7, <2>2 DEF DistinctIds
  <2>. QED  BY <2>1, <2>2 DEF DistinctIds, SeqIds
<1>. QED  BY <1>2, <1>3, <1>5, <1>6, <1>7 DEF t, h

(* The answers to all loads of a settled promise. *)
LEMMA AnswerAllIds ==
  ASSUME NEW s \in Seq(Response), NEW ids \in SUBSET Ids, MaxRequests \in Nat,
         NEW t \in [1 .. Cardinality(ids) -> Response],
         \A i \in 1 .. Cardinality(ids) : t[i].id = SetToSeq(ids)[i]
  PROVE  /\ s \o t \in Seq(Response)
         /\ SeqIds(s \o t) = SeqIds(s) \cup ids
         /\ DistinctIds(s) /\ SeqIds(s) \cap ids = {} => DistinctIds(s \o t)
         /\ \A i \in DOMAIN (s \o t) :
              \/ i \in DOMAIN s /\ (s \o t)[i] = s[i]
              \/ /\ (s \o t)[i].id \in ids
                 /\ \E j \in 1 .. Cardinality(ids) : (s \o t)[i] = t[j]
<1>. DEFINE u == s \o t
            n == Len(s)
            k == Cardinality(ids)
            f == SetToSeq(ids)
<1>1. IsFiniteSet(ids)
  <2>1. IsFiniteSet(Ids)
    BY FS_Interval DEF Ids
  <2>. QED  BY <2>1, FS_Subset
<1>2. /\ k \in Nat /\ f \in [1 .. k -> ids]
      /\ \A i, j \in 1 .. k : f[i] = f[j] => i = j
      /\ \A x \in ids : \E i \in 1 .. k : f[i] = x
  BY <1>1, SetToSeqProperties
<1>3. n \in Nat /\ DOMAIN s = 1 .. n
  BY LenProperties
<1>4. \A i \in 1 .. k : f[i] \in ids /\ t[i] \in Response /\ t[i].id = f[i]
  BY <1>2
<1>. HIDE DEF f, k
<1>5. t \in Seq(Response) /\ Len(t) = k
  <2>1. t \in [1 .. k -> Response]
    BY DEF k
  <2>. QED  BY <1>2, <2>1
<1>6. /\ u \in Seq(Response) /\ Len(u) = n + k
      /\ \A i \in 1 .. n + k : u[i] = IF i <= n THEN s[i] ELSE t[i - n]
  BY <1>5, ConcatProperties
<1>. HIDE DEF u
<1>7. DOMAIN u = 1 .. n + k
  BY <1>6, LenProperties
<1>. HIDE DEF n
<1>8. \A i \in DOMAIN u : \/ i \in DOMAIN s /\ u[i] = s[i]
                          \/ i \in Int /\ i - n \in 1 .. k /\ u[i] = t[i - n]
  BY <1>2, <1>3, <1>6, <1>7
<1>9. \A i \in DOMAIN s : i \in DOMAIN u /\ u[i] = s[i]
  BY <1>2, <1>3, <1>6, <1>7
<1>10. \A i \in 1 .. k : n + i \in DOMAIN u /\ u[n + i] = t[i]
  <2>1. \A i \in 1 .. k : n + i \in 1 .. n + k /\ ~(n + i <= n) /\ (n + i) - n = i
    BY <1>2, <1>3
  <2>. QED  BY <1>6, <1>7, <2>1
<1>11. SeqIds(u) = SeqIds(s) \cup ids
  <2>1. SeqIds(u) \subseteq SeqIds(s) \cup ids
    BY <1>4, <1>8 DEF SeqIds
  <2>2. SeqIds(s) \subseteq SeqIds(u)
    BY <1>9 DEF SeqIds
  <2>3. ids \subseteq SeqIds(u)
    BY <1>2, <1>4, <1>10 DEF SeqIds
  <2>. QED  BY <2>1, <2>2, <2>3
<1>12. ASSUME DistinctIds(s), SeqIds(s) \cap ids = {} PROVE DistinctIds(u)
  <2>. SUFFICES ASSUME NEW i \in DOMAIN u, NEW j \in DOMAIN u, u[i].id = u[j].id PROVE i = j
    BY DEF DistinctIds
  <2>1. CASE i \in DOMAIN s /\ u[i] = s[i] /\ j \in DOMAIN s /\ u[j] = s[j]
    BY <1>12, <2>1 DEF DistinctIds
  <2>2. CASE /\ i \in Int /\ i - n \in 1 .. k /\ u[i] = t[i - n]
             /\ j \in Int /\ j - n \in 1 .. k /\ u[j] = t[j - n]
    <3>1. i - n = j - n
      BY <1>2, <1>4, <2>2
    <3>. QED  BY <1>3, <2>2, <3>1
  <2>3. ASSUME NEW a \in DOMAIN u, NEW b \in DOMAIN u, a \in DOMAIN s, u[a] = s[a],
               b - n \in 1 .. k, u[b] = t[b - n], u[a].id = u[b].id PROVE FALSE
    <3>1. u[a].id \in SeqIds(s)
      BY <2>3 DEF SeqIds
    <3>2. u[b].id \in ids
      BY <1>4, <2>3
    <3>. QED  BY <1>12, <2>3, <3>1, <3>2
  <2>. QED  BY <1>8, <2>1, <2>2, <2>3
<1>13. \A i \in DOMAIN u :
         \/ i \in DOMAIN s /\ u[i] = s[i]
         \/ u[i].id \in ids /\ \E j \in 1 .. k : u[i] = t[j]
  BY <1>4, <1>8
<1>. QED  BY <1>6, <1>11, <1>12, <1>13 DEF k, u

-----------------------------------------------------------------------------
(* Steps of the worker *)

Session == [live : BOOLEAN, library : BOOLEAN, cont : BOOLEAN, broken : BOOLEAN,
            endless : BOOLEAN]

(* ensureReplSession returns a live session: the one there is, or a new one. *)
LEMMA SessionShapes ==
  ASSUME session \in Session, NEW lib \in BOOLEAN
  PROVE  /\ NoSession \in Session /\ ~NoSession.live /\ ~NoSession.cont /\ ~NoSession.broken
         /\ NewSession(lib) \in Session /\ NewSession(lib).live /\ ~NewSession(lib).cont
         /\ NewSession(lib).library = lib
         /\ Ensured(lib) \in Session /\ Ensured(lib).live
         /\ session.live => Ensured(lib) = session
         /\ ~session.live => Ensured(lib) = NewSession(lib)
<1>1. NoSession \in Session /\ ~NoSession.live /\ ~NoSession.cont /\ ~NoSession.broken
  BY DEF NoSession, Session
<1>2. /\ NewSession(lib) \in Session /\ NewSession(lib).live /\ ~NewSession(lib).cont
      /\ NewSession(lib).library = lib
  BY DEF NoSession, NewSession, Session
<1>3. /\ session.live => Ensured(lib) = session
      /\ ~session.live => Ensured(lib) = NewSession(lib)
  BY DEF Ensured
<1>4. CASE session.live
  BY <1>1, <1>2, <1>3, <1>4
<1>5. CASE ~session.live
  BY <1>1, <1>2, <1>3, <1>5
<1>. QED  BY <1>4, <1>5

(* The parts of the invariant that one step's places can disturb. *)
LEMMA OnePlaceIntro ==
  ASSUME DistinctIds(inbox'), DistinctIds(outbox'),
         Apart(SeqIds(inbox'), SeqIds(outbox'), starting'.ids, refetching', delivered'),
         SeqIds(inbox') \cup SeqIds(outbox') \cup starting'.ids \cup refetching' \cup delivered'
           \subseteq 1 .. posted'
  PROVE  OnePlace'
BY DEF OnePlace, DistinctIds, SeqIds, Apart

(* The worker takes the first message. *)
LEMMA TakeFacts ==
  ASSUME WorkerInv, NEW a, Take(a)
  PROVE  /\ Head(inbox).id \in Ids /\ Head(inbox).id \notin SeqIds(inbox')
         /\ 1 \in DOMAIN inbox /\ Head(inbox) = inbox[1]
         /\ inbox' \in Seq(Message) /\ DistinctIds(inbox')
         /\ SeqIds(inbox) = SeqIds(inbox') \cup {Head(inbox).id}
         /\ posted' = posted /\ delivered' = delivered
<1>1. inbox \in Seq(Message) /\ inbox # <<>> /\ inbox' = Tail(inbox) /\ DistinctIds(inbox)
  BY DEF WorkerInv, WorkerTypeOK, OnePlace, Take, Message
<1>2. /\ Head(inbox) \in Message /\ Tail(inbox) \in Seq(Message)
      /\ 1 \in DOMAIN inbox /\ Head(inbox) = inbox[1]
      /\ SeqIds(inbox) = SeqIds(Tail(inbox)) \cup {Head(inbox).id}
      /\ DistinctIds(Tail(inbox)) /\ Head(inbox).id \notin SeqIds(Tail(inbox))
  BY <1>1, TailIds
<1>3. Head(inbox).id \in Ids
  BY <1>2 DEF Message
<1>. QED  BY <1>1, <1>2, <1>3 DEF Take

(* A message that is answered at once moves to the outbox. *)
LEMMA AnswerTaken ==
  ASSUME WorkerInv, NEW a, Take(a), NEW r \in Response, r.id = Head(inbox).id,
         outbox' = Append(outbox, r), UNCHANGED <<starting, refetching>>
  PROVE  OnePlace' /\ outbox' \in Seq(Response)
<1>. DEFINE id == Head(inbox).id
<1>1. /\ id \notin SeqIds(inbox') /\ DistinctIds(inbox')
      /\ SeqIds(inbox) = SeqIds(inbox') \cup {id} /\ posted' = posted /\ delivered' = delivered
  BY TakeFacts
<1>2. outbox \in Seq(Response) /\ DistinctIds(outbox)
  BY DEF WorkerInv, WorkerTypeOK, OnePlace
<1>3. /\ Apart(SeqIds(inbox), SeqIds(outbox), starting.ids, refetching, delivered)
      /\ SeqIds(inbox) \cup SeqIds(outbox) \cup starting.ids \cup refetching \cup delivered
           \subseteq 1 .. posted
  BY DEF WorkerInv, OnePlace
<1>. HIDE DEF id
<1>4. id \notin SeqIds(outbox)
  BY <1>1, <1>3 DEF Apart
<1>5. /\ outbox' \in Seq(Response) /\ SeqIds(outbox') = SeqIds(outbox) \cup {id}
      /\ DistinctIds(outbox')
  BY <1>2, <1>4, AppendIds DEF id
<1>6. Apart(SeqIds(inbox'), SeqIds(outbox'), starting'.ids, refetching', delivered')
  BY <1>1, <1>3, <1>5 DEF Apart
<1>7. SeqIds(inbox') \cup SeqIds(outbox') \cup starting'.ids \cup refetching' \cup delivered'
        \subseteq 1 .. posted'
  BY <1>1, <1>3, <1>5
<1>. QED  BY <1>1, <1>5, <1>6, <1>7, OnePlaceIntro

(* loadRuntime. *)
LEMMA LoadInv ==
  ASSUME WorkerInv, Load
  PROVE  WorkerInv'
<1>. DEFINE id == Head(inbox).id
<1>1. Take("load")
  BY DEF Load
<1>2. /\ id \in Ids /\ id \notin SeqIds(inbox') /\ inbox' \in Seq(Message) /\ DistinctIds(inbox')
      /\ SeqIds(inbox) = SeqIds(inbox') \cup {id} /\ posted' = posted /\ delivered' = delivered
  BY <1>1, TakeFacts
<1>3. /\ session \in Session /\ starting \in [stage : {"none", "import", "library"}, ids : SUBSET Ids]
      /\ refetching \subseteq Ids /\ library \in BOOLEAN /\ outbox \in Seq(Response)
  BY DEF WorkerInv, WorkerTypeOK, Session
<1>4. /\ Apart(SeqIds(inbox), SeqIds(outbox), starting.ids, refetching, delivered)
      /\ SeqIds(inbox) \cup SeqIds(outbox) \cup starting.ids \cup refetching \cup delivered
           \subseteq 1 .. posted
      /\ DistinctIds(outbox)
  BY DEF WorkerInv, OnePlace
<1>5. CASE /\ runtime /\ packLoaded
           /\ session' = Ensured(library)
           /\ outbox' = Append(outbox, Answer(id, "load", TRUE, session'.cont))
           /\ UNCHANGED <<runtime, starting, refetching, packLoaded, library>>
  <2>1. session' \in Session /\ session'.cont \in BOOLEAN
    <3>1. session' \in Session
      BY <1>3, <1>5, SessionShapes
    <3>. QED  BY <3>1 DEF Session
  <2>2. /\ Answer(id, "load", TRUE, session'.cont) \in Response
        /\ Answer(id, "load", TRUE, session'.cont).id = id
    BY <1>2, <2>1 DEF Answer, Response, Actions
  <2>3. OnePlace' /\ outbox' \in Seq(Response)
    BY <1>1, <1>5, <2>2, AnswerTaken
  <2>4. WorkerTypeOK'
    BY <1>2, <1>5, <2>1, <2>3 DEF WorkerInv, WorkerTypeOK, Message, Session
  <2>5. NothingHalfLoaded' /\ StartInv'
    BY <1>5 DEF WorkerInv, NothingHalfLoaded, StartInv
  <2>. QED  BY <2>3, <2>4, <2>5 DEF WorkerInv
<1>6. CASE /\ runtime /\ ~packLoaded
           /\ refetching' = refetching \cup {id}
           /\ UNCHANGED <<outbox, runtime, starting, packLoaded, library, session>>
  <2>. HIDE DEF id
  <2>1. Apart(SeqIds(inbox'), SeqIds(outbox'), starting'.ids, refetching', delivered')
    BY <1>2, <1>4, <1>6 DEF Apart
  <2>2. SeqIds(inbox') \cup SeqIds(outbox') \cup starting'.ids \cup refetching' \cup delivered'
          \subseteq 1 .. posted'
    BY <1>2, <1>4, <1>6
  <2>3. OnePlace'
    BY <1>2, <1>4, <1>6, <2>1, <2>2, OnePlaceIntro
  <2>4. WorkerTypeOK'
    BY <1>2, <1>6 DEF WorkerInv, WorkerTypeOK, Message
  <2>5. NothingHalfLoaded' /\ StartInv'
    BY <1>6 DEF WorkerInv, NothingHalfLoaded, StartInv
  <2>. QED  BY <2>3, <2>4, <2>5 DEF WorkerInv
<1>7. CASE /\ ~runtime
           /\ starting' = IF starting.stage = "none" THEN [stage |-> "import", ids |-> {id}]
                                                     ELSE [starting EXCEPT !.ids = @ \cup {id}]
           /\ UNCHANGED <<outbox, runtime, refetching, packLoaded, library, session>>
  <2>. HIDE DEF id
  <2>1. /\ starting' \in [stage : {"none", "import", "library"}, ids : SUBSET Ids]
        /\ starting'.stage = "import" /\ starting'.ids = starting.ids \cup {id}
    <3>1. CASE starting.stage = "none"
      <4>1. starting.ids = {}
        BY <3>1 DEF WorkerInv, StartInv
      <4>. QED  BY <1>2, <1>7, <3>1, <4>1
    <3>2. CASE starting.stage # "none"
      <4>1. starting.stage = "import"
        BY <1>3, <1>7, <3>2 DEF WorkerInv, StartInv
      <4>. QED  BY <1>2, <1>3, <1>7, <4>1
    <3>. QED  BY <3>1, <3>2
  <2>2. Apart(SeqIds(inbox'), SeqIds(outbox'), starting'.ids, refetching', delivered')
    BY <1>2, <1>4, <1>7, <2>1 DEF Apart
  <2>3. SeqIds(inbox') \cup SeqIds(outbox') \cup starting'.ids \cup refetching' \cup delivered'
          \subseteq 1 .. posted'
    BY <1>2, <1>4, <1>7, <2>1
  <2>4. OnePlace'
    BY <1>2, <1>4, <1>7, <2>2, <2>3, OnePlaceIntro
  <2>5. WorkerTypeOK'
    BY <1>2, <1>7, <2>1 DEF WorkerInv, WorkerTypeOK, Message
  <2>6. NothingHalfLoaded' /\ StartInv'
    BY <1>7, <2>1 DEF WorkerInv, NothingHalfLoaded, StartInv
  <2>. QED  BY <2>4, <2>5, <2>6 DEF WorkerInv
<1>. QED  BY <1>5, <1>6, <1>7 DEF Load

(* executeSource and resetSession answer at once. *)
LEMMA AnswerInv ==
  ASSUME WorkerInv, NEW a \in Actions, Take(a), NEW ok \in BOOLEAN, NEW cont \in BOOLEAN,
         outbox' = Append(outbox, Answer(Head(inbox).id, a, ok, cont)),
         session' \in Session, session'.live => session.live \/ runtime,
         UNCHANGED <<runtime, starting, refetching, packLoaded, library>>
  PROVE  WorkerInv'
<1>1. /\ Head(inbox).id \in Ids /\ inbox' \in Seq(Message)
      /\ posted' = posted /\ delivered' = delivered
  BY TakeFacts
<1>2. /\ Answer(Head(inbox).id, a, ok, cont) \in Response
      /\ Answer(Head(inbox).id, a, ok, cont).id = Head(inbox).id
  BY <1>1 DEF Answer, Response
<1>3. OnePlace' /\ outbox' \in Seq(Response)
  BY <1>2, AnswerTaken
<1>4. WorkerTypeOK'
  BY <1>1, <1>3 DEF WorkerInv, WorkerTypeOK, Message, Session
<1>5. NothingHalfLoaded' /\ StartInv'
  BY DEF WorkerInv, NothingHalfLoaded, StartInv
<1>. QED  BY <1>3, <1>4, <1>5 DEF WorkerInv

(* What executeSource may do to the session and answer. *)
LEMMA ExecuteCases ==
  ASSUME WorkerInv, Execute
  PROVE  /\ Take("execute") /\ UNCHANGED <<runtime, starting, refetching, packLoaded, library>>
         /\ session' \in Session
         /\ \E ok, cont \in BOOLEAN :
              /\ outbox' = Append(outbox, Answer(Head(inbox).id, "execute", ok, cont))
              /\ \/ ~runtime /\ session' = session
                 \/ /\ runtime /\ session'.live /\ session'.library = Ensured(library).library
                    /\ session'.broken \/ session'.cont = cont
<1>. DEFINE id == Head(inbox).id
            e == Ensured(library)
            fails == outbox' = Append(outbox, Answer(id, "execute", FALSE, FALSE))
<1>1. session \in Session /\ library \in BOOLEAN
  BY DEF WorkerInv, WorkerTypeOK, Session
<1>2. e \in Session /\ e.live
  BY <1>1, SessionShapes
<1>. HIDE DEF e, id
<1>3. CASE ~runtime /\ fails /\ session' = session
  BY <1>1, <1>3 DEF Execute, id
<1>4. ASSUME runtime, NEW more \in BOOLEAN, session' = [e EXCEPT !.cont = more],
             outbox' = Append(outbox, Answer(id, "execute", TRUE, more))
      PROVE  /\ session' \in Session
             /\ \E ok, cont \in BOOLEAN :
                  /\ outbox' = Append(outbox, Answer(id, "execute", ok, cont))
                  /\ \/ ~runtime /\ session' = session
                     \/ /\ runtime /\ session'.live /\ session'.library = e.library
                        /\ session'.broken \/ session'.cont = cont
  <2>1. /\ session' \in Session /\ session'.live /\ session'.library = e.library
        /\ session'.cont = more
    BY <1>2, <1>4 DEF Session
  <2>. QED  BY <1>4, <2>1
<1>5. CASE runtime /\ session' = [e EXCEPT !.broken = TRUE] /\ fails
  <2>1. session' \in Session /\ session'.live /\ session'.library = e.library /\ session'.broken
    BY <1>2, <1>5 DEF Session
  <2>. QED  BY <1>5, <2>1 DEF Execute, e, id
<1>6. /\ Take("execute") /\ UNCHANGED <<runtime, starting, refetching, packLoaded, library>>
      /\ \/ ~runtime /\ fails /\ session' = session
         \/ /\ runtime
            /\ \E more \in BOOLEAN : /\ session' = [e EXCEPT !.cont = more]
                                     /\ outbox' = Append(outbox, Answer(id, "execute", TRUE, more))
         \/ runtime /\ session' = [e EXCEPT !.broken = TRUE] /\ fails
  BY DEF Execute, e, id
<1>. QED  BY <1>3, <1>4, <1>5, <1>6 DEF e, id

(* What resetSession may do to the session and answer. *)
LEMMA ResetCases ==
  ASSUME WorkerInv, Reset
  PROVE  /\ Take("reset") /\ UNCHANGED <<runtime, starting, refetching, packLoaded, library>>
         /\ session' \in Session
         /\ \E ok \in BOOLEAN :
              /\ outbox' = Append(outbox, Answer(Head(inbox).id, "reset", ok, FALSE))
              /\ \/ ~runtime /\ session' = session
                 \/ runtime /\ session' = NewSession(library)
                 \/ runtime /\ session' = session /\ session.broken
<1>1. session \in Session /\ library \in BOOLEAN
  BY DEF WorkerInv, WorkerTypeOK, Session
<1>2. NewSession(library) \in Session
  BY <1>1, SessionShapes
<1>. QED  BY <1>1, <1>2 DEF Reset

(* executeSource keeps the invariant. *)
LEMMA ExecuteInv ==
  ASSUME WorkerInv, Execute
  PROVE  WorkerInv'
<1>1. "execute" \in Actions
  BY DEF Actions
<1>2. PICK ok, cont \in BOOLEAN :
        /\ outbox' = Append(outbox, Answer(Head(inbox).id, "execute", ok, cont))
        /\ session'.live => session.live \/ runtime
  BY ExecuteCases
<1>. QED  BY <1>1, <1>2, ExecuteCases, AnswerInv

(* A snippet that runs for ever has a session and a module. *)
LEMMA ForEverCases ==
  ASSUME WorkerInv, ExecuteForEver
  PROVE  /\ UNCHANGED <<inbox, outbox, posted, delivered, runtime, starting, refetching,
                        packLoaded, library>>
         /\ runtime /\ inbox # <<>> /\ session' \in Session /\ session'.live
         /\ session.live => session'.library = session.library /\ session'.cont = session.cont
                            /\ session'.broken = session.broken
<1>1. session \in Session /\ library \in BOOLEAN
  BY DEF WorkerInv, WorkerTypeOK, Session
<1>2. PICK e \in Session : /\ e.live /\ (session.live => e = session)
                          /\ session' = [e EXCEPT !.endless = TRUE]
  BY <1>1, SessionShapes DEF ExecuteForEver
<1>3. /\ session' \in Session /\ session'.live /\ session'.library = e.library
      /\ session'.cont = e.cont /\ session'.broken = e.broken
  BY <1>2 DEF Session
<1>. QED  BY <1>2, <1>3 DEF ExecuteForEver

(* It keeps the invariant. *)
LEMMA ExecuteForEverInv ==
  ASSUME WorkerInv, ExecuteForEver
  PROVE  WorkerInv'
<1>1. /\ UNCHANGED <<inbox, outbox, posted, delivered, runtime, starting, refetching,
                     packLoaded, library>>
      /\ runtime /\ session' \in Session
  BY ForEverCases
<1>2. WorkerTypeOK'
  BY <1>1 DEF WorkerInv, WorkerTypeOK, Session
<1>3. NothingHalfLoaded' /\ StartInv'
  BY <1>1 DEF WorkerInv, NothingHalfLoaded, StartInv
<1>4. OnePlace'
  BY <1>1 DEF WorkerInv, OnePlace, SeqIds, DistinctIds
<1>. QED  BY <1>2, <1>3, <1>4 DEF WorkerInv

(* resetSession keeps it. *)
LEMMA ResetInv ==
  ASSUME WorkerInv, Reset
  PROVE  WorkerInv'
<1>1. "reset" \in Actions /\ FALSE \in BOOLEAN
  BY DEF Actions
<1>2. PICK ok \in BOOLEAN :
        /\ outbox' = Append(outbox, Answer(Head(inbox).id, "reset", ok, FALSE))
        /\ session'.live => session.live \/ runtime
  BY ResetCases
<1>. QED  BY <1>1, <1>2, ResetCases, AnswerInv

(* The answers of AnswerAll. *)
LEMMA AnswerAllFacts ==
  ASSUME WorkerInv, NEW ok \in BOOLEAN, NEW cont \in BOOLEAN,
         AnswerAll(starting.ids, "load", ok, cont)
  PROVE  /\ outbox' \in Seq(Response)
         /\ SeqIds(outbox') = SeqIds(outbox) \cup starting.ids
         /\ DistinctIds(outbox) /\ SeqIds(outbox) \cap starting.ids = {} => DistinctIds(outbox')
         /\ \A i \in DOMAIN outbox' :
              \/ i \in DOMAIN outbox /\ outbox'[i] = outbox[i]
              \/ /\ outbox'[i].id \in starting.ids
                 /\ outbox'[i].ok = ok /\ outbox'[i].cont = cont
<1>. DEFINE ids == starting.ids
            f == SetToSeq(ids)
            k == Cardinality(ids)
            t == [i \in 1 .. k |-> Answer(f[i], "load", ok, cont)]
<1>1. outbox \in Seq(Response) /\ ids \in SUBSET Ids /\ MaxRequests \in Nat
  BY RequestsAssumption DEF WorkerInv, WorkerTypeOK
<1>2. k \in Nat /\ f \in [1 .. k -> ids]
  <2>1. IsFiniteSet(Ids)
    BY RequestsAssumption, FS_Interval DEF Ids
  <2>2. IsFiniteSet(ids)
    BY <1>1, <2>1, FS_Subset
  <2>. QED  BY <2>2, SetToSeqProperties
<1>3. outbox' = outbox \o t
  BY DEF AnswerAll
<1>. HIDE DEF f, k, ids
<1>4. \A i \in 1 .. k : /\ t[i] \in Response /\ t[i].id = f[i]
                        /\ t[i].ok = ok /\ t[i].cont = cont
  BY <1>1, <1>2 DEF Answer, Response, Actions
<1>5. t \in [1 .. k -> Response]
  BY <1>4
<1>. HIDE DEF t
<1>6. /\ outbox' \in Seq(Response)
      /\ SeqIds(outbox') = SeqIds(outbox) \cup ids
      /\ DistinctIds(outbox) /\ SeqIds(outbox) \cap ids = {} => DistinctIds(outbox')
      /\ \A i \in DOMAIN outbox' :
           \/ i \in DOMAIN outbox /\ outbox'[i] = outbox[i]
           \/ outbox'[i].id \in ids /\ \E j \in 1 .. k : outbox'[i] = t[j]
  <2>1. /\ t \in [1 .. Cardinality(ids) -> Response]
        /\ \A i \in 1 .. Cardinality(ids) : t[i].id = SetToSeq(ids)[i]
    BY <1>4, <1>5 DEF k, f
  <2>2. LET u == outbox \o t IN
        /\ u \in Seq(Response)
        /\ SeqIds(u) = SeqIds(outbox) \cup ids
        /\ DistinctIds(outbox) /\ SeqIds(outbox) \cap ids = {} => DistinctIds(u)
        /\ \A i \in DOMAIN u :
             \/ i \in DOMAIN outbox /\ u[i] = outbox[i]
             \/ u[i].id \in ids /\ \E j \in 1 .. Cardinality(ids) : u[i] = t[j]
    BY <1>1, <2>1, AnswerAllIds
  <2>. QED  BY <1>3, <2>2, Zenon DEF k
<1>. QED  BY <1>4, <1>6 DEF ids

(* A promise that settles answers all its loads. *)
LEMMA SettleIds ==
  ASSUME WorkerInv, NEW ok \in BOOLEAN, NEW cont \in BOOLEAN,
         AnswerAll(starting.ids, "load", ok, cont), starting' = NoStart,
         UNCHANGED <<inbox, posted, delivered, refetching>>
  PROVE  OnePlace' /\ outbox' \in Seq(Response)
<1>2. /\ Apart(SeqIds(inbox), SeqIds(outbox), starting.ids, refetching, delivered)
      /\ SeqIds(inbox) \cup SeqIds(outbox) \cup starting.ids \cup refetching \cup delivered
           \subseteq 1 .. posted
      /\ DistinctIds(outbox) /\ DistinctIds(inbox)
  BY DEF WorkerInv, OnePlace
<1>3. SeqIds(outbox) \cap starting.ids = {}
  BY <1>2 DEF Apart
<1>4. /\ outbox' \in Seq(Response) /\ SeqIds(outbox') = SeqIds(outbox) \cup starting.ids
      /\ DistinctIds(outbox')
  BY <1>2, <1>3, AnswerAllFacts
<1>5. starting'.ids = {}
  BY DEF NoStart
<1>6. Apart(SeqIds(inbox'), SeqIds(outbox'), starting'.ids, refetching', delivered')
  BY <1>2, <1>4, <1>5 DEF Apart
<1>7. SeqIds(inbox') \cup SeqIds(outbox') \cup starting'.ids \cup refetching' \cup delivered'
        \subseteq 1 .. posted'
  BY <1>2, <1>4, <1>5
<1>. QED  BY <1>2, <1>4, <1>6, <1>7, OnePlaceIntro

(* The catch of the load promise leaves nothing half loaded. *)
LEMMA LoadFailsInv ==
  ASSUME WorkerInv, LoadFails
  PROVE  WorkerInv'
<1>1. OnePlace' /\ outbox' \in Seq(Response)
  <2>1. AnswerAll(starting.ids, "load", FALSE, FALSE) /\ FALSE \in BOOLEAN
    BY DEF LoadFails
  <2>. QED  BY <2>1, SettleIds DEF LoadFails
<1>2. WorkerTypeOK'
  BY <1>1 DEF WorkerInv, WorkerTypeOK, LoadFails, NoStart, NoSession
<1>3. NothingHalfLoaded' /\ StartInv'
  BY DEF NothingHalfLoaded, StartInv, LoadFails, NoStart, NoSession
<1>. QED  BY <1>1, <1>2, <1>3 DEF WorkerInv

(* The import settles. *)
LEMMA ImportedInv ==
  ASSUME WorkerInv, Imported
  PROVE  WorkerInv'
<1>1. CASE LoadFails
  BY <1>1, LoadFailsInv
<1>2. CASE /\ runtime' = TRUE /\ session' = NoSession /\ packLoaded' = FALSE
           /\ starting' = [starting EXCEPT !.stage = "library"]
           /\ UNCHANGED <<inbox, outbox, posted, delivered, refetching, library>>
  <2>1. starting \in [stage : {"none", "import", "library"}, ids : SUBSET Ids]
    BY DEF WorkerInv, WorkerTypeOK
  <2>2. /\ starting' \in [stage : {"none", "import", "library"}, ids : SUBSET Ids]
        /\ starting'.stage = "library" /\ starting'.ids = starting.ids
    BY <1>2, <2>1
  <2>3. WorkerTypeOK'
    BY <1>2, <2>2 DEF WorkerInv, WorkerTypeOK, NoSession
  <2>4. NothingHalfLoaded' /\ StartInv'
    BY <1>2, <2>2 DEF WorkerInv, NothingHalfLoaded, StartInv, Imported, NoSession
  <2>5. OnePlace'
    BY <1>2, <2>2, OnePlaceIntro DEF WorkerInv, OnePlace
  <2>. QED  BY <2>3, <2>4, <2>5 DEF WorkerInv
<1>. QED  BY <1>1, <1>2 DEF Imported

(* The fetch of the library settles. *)
LEMMA FetchedInv ==
  ASSUME WorkerInv, Fetched
  PROVE  WorkerInv'
<1>1. CASE LoadFails
  BY <1>1, LoadFailsInv
<1>2. CASE /\ library' = TRUE /\ packLoaded' = TRUE
           /\ session' = Ensured(TRUE)
           /\ AnswerAll(starting.ids, "load", TRUE, session'.cont)
           /\ starting' = NoStart
           /\ UNCHANGED <<inbox, posted, delivered, runtime, refetching>>
  <2>1. session' \in Session /\ session'.cont \in BOOLEAN /\ session \in Session
    <3>1. session \in Session
      BY DEF WorkerInv, WorkerTypeOK, Session
    <3>2. session' \in Session
      BY <1>2, <3>1, SessionShapes
    <3>. QED  BY <3>1, <3>2 DEF Session
  <2>2. OnePlace' /\ outbox' \in Seq(Response)
    <3>1. TRUE \in BOOLEAN
      OBVIOUS
    <3>. QED  BY <1>2, <2>1, <3>1, SettleIds, Zenon
  <2>3. WorkerTypeOK'
    BY <1>2, <2>1, <2>2 DEF WorkerInv, WorkerTypeOK, NoStart, Session
  <2>4. NothingHalfLoaded' /\ StartInv'
    BY <1>2 DEF WorkerInv, NothingHalfLoaded, StartInv, Fetched, NoStart
  <2>. QED  BY <2>2, <2>3, <2>4 DEF WorkerInv
<1>. QED  BY <1>1, <1>2 DEF Fetched

(* The fetch of a load that found the module set. *)
LEMMA RefetchedInv ==
  ASSUME WorkerInv, NEW id \in refetching, Refetched(id)
  PROVE  WorkerInv'
<1>1. /\ id \in Ids /\ outbox \in Seq(Response) /\ session \in Session
      /\ refetching \subseteq Ids
  BY DEF WorkerInv, WorkerTypeOK, Session
<1>2. /\ Apart(SeqIds(inbox), SeqIds(outbox), starting.ids, refetching, delivered)
      /\ SeqIds(inbox) \cup SeqIds(outbox) \cup starting.ids \cup refetching \cup delivered
           \subseteq 1 .. posted
      /\ DistinctIds(outbox) /\ DistinctIds(inbox)
  BY DEF WorkerInv, OnePlace
<1>3. refetching' = refetching \ {id} /\ UNCHANGED <<inbox, posted, delivered, runtime, starting>>
  BY DEF Refetched
<1>4. ASSUME outbox' \in Seq(Response), DistinctIds(outbox'),
             SeqIds(outbox') \subseteq SeqIds(outbox) \cup {id}
      PROVE  OnePlace'
  <2>1. Apart(SeqIds(inbox'), SeqIds(outbox'), starting'.ids, refetching', delivered')
    BY <1>2, <1>3, <1>4 DEF Apart
  <2>2. SeqIds(inbox') \cup SeqIds(outbox') \cup starting'.ids \cup refetching' \cup delivered'
          \subseteq 1 .. posted'
    BY <1>2, <1>3, <1>4
  <2>. QED  BY <1>2, <1>3, <1>4, <2>1, <2>2, OnePlaceIntro
<1>5. CASE /\ runtime
           /\ library' = TRUE /\ packLoaded' = TRUE
           /\ session' = Ensured(TRUE)
           /\ outbox' = Append(outbox, Answer(id, "load", TRUE, session'.cont))
  <2>1. session' \in Session /\ session'.cont \in BOOLEAN
    <3>1. session' \in Session
      BY <1>1, <1>5, SessionShapes
    <3>. QED  BY <3>1 DEF Session
  <2>2. /\ Answer(id, "load", TRUE, session'.cont) \in Response
        /\ Answer(id, "load", TRUE, session'.cont).id = id
    BY <1>1, <2>1 DEF Answer, Response, Actions
  <2>3. id \notin SeqIds(outbox)
    BY <1>2 DEF Apart
  <2>4. /\ outbox' \in Seq(Response) /\ DistinctIds(outbox')
        /\ SeqIds(outbox') = SeqIds(outbox) \cup {id}
    <3>. DEFINE r == Answer(id, "load", TRUE, session'.cont)
    <3>1. r \in Response /\ r.id = id /\ outbox' = Append(outbox, r)
      BY <1>5, <2>2
    <3>. HIDE DEF r
    <3>. QED  BY <1>1, <1>2, <2>3, <3>1, AppendIds
  <2>5. OnePlace'
    BY <1>4, <2>4
  <2>6. WorkerTypeOK'
    BY <1>1, <1>3, <1>5, <2>1, <2>4 DEF WorkerInv, WorkerTypeOK, Session
  <2>7. NothingHalfLoaded' /\ StartInv'
    BY <1>3, <1>5 DEF WorkerInv, NothingHalfLoaded, StartInv
  <2>. QED  BY <2>5, <2>6, <2>7 DEF WorkerInv
<1>6. CASE UNCHANGED <<outbox, packLoaded, library, session>>
  <2>1. OnePlace'
    BY <1>1, <1>2, <1>4, <1>6
  <2>2. WorkerTypeOK'
    BY <1>1, <1>3, <1>6 DEF WorkerInv, WorkerTypeOK
  <2>3. NothingHalfLoaded' /\ StartInv'
    BY <1>3, <1>6 DEF WorkerInv, NothingHalfLoaded, StartInv
  <2>. QED  BY <2>1, <2>2, <2>3 DEF WorkerInv
<1>. QED  BY <1>5, <1>6 DEF Refetched

(* Every step of the worker keeps its invariant. *)
LEMMA WorkerStepInv ==
  ASSUME WorkerInv, Handle \/ Settle
  PROVE  WorkerInv'
BY LoadInv, ExecuteInv, ExecuteForEverInv, ResetInv, ImportedInv, FetchedInv, RefetchedInv
   DEF Handle, Settle

(* The client, whoever it is, takes the first answer. *)
LEMMA ReceiveFacts ==
  ASSUME WorkerInv, Receive
  PROVE  /\ Head(outbox) \in Response /\ 1 \in DOMAIN outbox /\ Head(outbox) = outbox[1]
         /\ outbox' \in Seq(Response) /\ DistinctIds(outbox')
         /\ SeqIds(outbox) = SeqIds(outbox') \cup {Head(outbox).id}
         /\ Head(outbox).id \notin SeqIds(outbox') /\ Head(outbox).id \in Ids
         /\ delivered' = delivered \cup {Head(outbox).id}
         /\ \A i \in DOMAIN outbox' : i + 1 \in DOMAIN outbox /\ outbox'[i] = outbox[i + 1]
<1>1. /\ outbox \in Seq(Response) /\ DistinctIds(outbox) /\ outbox # <<>>
      /\ outbox' = Tail(outbox)
  BY DEF WorkerInv, WorkerTypeOK, OnePlace, Receive
<1>2. /\ Head(outbox) \in Response /\ Tail(outbox) \in Seq(Response)
      /\ 1 \in DOMAIN outbox /\ Head(outbox) = outbox[1]
      /\ SeqIds(outbox) = SeqIds(Tail(outbox)) \cup {Head(outbox).id}
      /\ DistinctIds(Tail(outbox)) /\ Head(outbox).id \notin SeqIds(Tail(outbox))
      /\ \A i \in DOMAIN Tail(outbox) :
           i + 1 \in DOMAIN outbox /\ Tail(outbox)[i] = outbox[i + 1]
  BY <1>1, TailIds
<1>3. Head(outbox).id \in Ids
  BY <1>2 DEF Response
<1>. QED  BY <1>1, <1>2, <1>3 DEF Receive

(* The client posts a request with a new id, or none, and takes an answer,    *)
(* or none.                                                                   *)
LEMMA ClientInv ==
  ASSUME WorkerInv, UNCHANGED workerVars,
         \/ Receive
         \/ UNCHANGED <<outbox, delivered>>,
         \/ UNCHANGED <<inbox, posted>>
         \/ posted < MaxRequests /\ \E a \in Actions : Post(a)
  PROVE  /\ WorkerInv'
         /\ posted' = posted \/ SeqIds(inbox') = SeqIds(inbox) \cup {posted + 1}
<1>1. /\ inbox \in Seq(Message) /\ outbox \in Seq(Response) /\ posted \in 0 .. MaxRequests
      /\ MaxRequests \in Nat /\ delivered \subseteq Ids
  BY RequestsAssumption DEF WorkerInv, WorkerTypeOK, Message
<1>2. /\ Apart(SeqIds(inbox), SeqIds(outbox), starting.ids, refetching, delivered)
      /\ SeqIds(inbox) \cup SeqIds(outbox) \cup starting.ids \cup refetching \cup delivered
           \subseteq 1 .. posted
      /\ DistinctIds(outbox) /\ DistinctIds(inbox)
  BY DEF WorkerInv, OnePlace
<1>3. /\ outbox' \in Seq(Response) /\ DistinctIds(outbox') /\ delivered' \subseteq Ids
      /\ SeqIds(outbox') \cup delivered' = SeqIds(outbox) \cup delivered
      /\ SeqIds(outbox') \cap delivered' = {}
  <2>1. CASE Receive
    <3>. DEFINE id == Head(outbox).id
    <3>1. /\ outbox' \in Seq(Response) /\ DistinctIds(outbox')
          /\ SeqIds(outbox) = SeqIds(outbox') \cup {id} /\ id \notin SeqIds(outbox')
          /\ delivered' = delivered \cup {id} /\ id \in Ids
      BY <2>1, ReceiveFacts
    <3>. HIDE DEF id
    <3>2. SeqIds(outbox) \cap delivered = {}
      BY <1>2 DEF Apart
    <3>. QED  BY <1>1, <3>1, <3>2
  <2>2. CASE UNCHANGED <<outbox, delivered>>
    BY <1>1, <1>2, <2>2 DEF Apart
  <2>. QED  BY <2>1, <2>2
<1>4. /\ inbox' \in Seq(Message) /\ DistinctIds(inbox') /\ posted' \in 0 .. MaxRequests
      /\ \/ posted' = posted /\ SeqIds(inbox') = SeqIds(inbox)
         \/ posted' = posted + 1 /\ SeqIds(inbox') = SeqIds(inbox) \cup {posted + 1}
  <2>1. CASE UNCHANGED <<inbox, posted>>
    BY <1>1, <1>2, <2>1
  <2>2. ASSUME posted < MaxRequests, NEW a \in Actions, Post(a)
        PROVE  /\ inbox' \in Seq(Message) /\ DistinctIds(inbox') /\ posted' \in 0 .. MaxRequests
               /\ posted' = posted + 1 /\ SeqIds(inbox') = SeqIds(inbox) \cup {posted + 1}
    <3>. DEFINE m == [id |-> posted + 1, action |-> a]
    <3>1. m \in Message /\ m.id = posted + 1
      BY <1>1, <2>2 DEF Message, Ids
    <3>2. posted + 1 \notin SeqIds(inbox)
      <4>1. posted + 1 \notin 1 .. posted
        BY <1>1
      <4>. QED  BY <1>2, <4>1
    <3>3. inbox' = Append(inbox, m) /\ posted' = posted + 1
      BY <2>2 DEF Post
    <3>. HIDE DEF m
    <3>4. /\ inbox' \in Seq(Message) /\ DistinctIds(inbox')
          /\ SeqIds(inbox') = SeqIds(inbox) \cup {posted + 1}
      BY <1>1, <1>2, <3>1, <3>2, <3>3, AppendIds
    <3>5. posted + 1 \in 0 .. MaxRequests
      BY <1>1, <2>2
    <3>. QED  BY <3>3, <3>4, <3>5
  <2>. QED  BY <2>1, <2>2
<1>5. \A x \in 1 .. posted : x \in 1 .. posted' /\ x # posted + 1
  BY <1>1, <1>4
<1>6. posted' = posted + 1 => posted + 1 \in 1 .. posted'
  BY <1>1
<1>7. starting' = starting /\ refetching' = refetching
  BY DEF workerVars
<1>8. Apart(SeqIds(inbox'), SeqIds(outbox'), starting'.ids, refetching', delivered')
  <2>1. ASSUME NEW x \in SeqIds(inbox')
        PROVE  x \notin SeqIds(outbox) \cup starting.ids \cup refetching \cup delivered
    BY <1>2, <1>4, <1>5 DEF Apart
  <2>. QED  BY <1>2, <1>3, <1>7, <2>1 DEF Apart
<1>9. SeqIds(inbox') \cup SeqIds(outbox') \cup starting'.ids \cup refetching' \cup delivered'
        \subseteq 1 .. posted'
  BY <1>2, <1>3, <1>4, <1>5, <1>6, <1>7
<1>10. OnePlace'
  BY <1>3, <1>4, <1>8, <1>9, OnePlaceIntro
<1>11. WorkerTypeOK'
  BY <1>3, <1>4 DEF WorkerInv, WorkerTypeOK, workerVars, Message
<1>12. NothingHalfLoaded' /\ StartInv'
  BY DEF WorkerInv, NothingHalfLoaded, StartInv, workerVars
<1>. QED  BY <1>4, <1>10, <1>11, <1>12 DEF WorkerInv

-----------------------------------------------------------------------------
(* The worker with any client *)

(* The worker starts idle. *)
LEMMA ClientInitInv == ClientInit => WorkerInv
<1>. SUFFICES ASSUME ClientInit PROVE WorkerInv
  OBVIOUS
<1>1. WorkerTypeOK
  <2>1. NoStart \in [stage : {"none", "import", "library"}, ids : SUBSET Ids]
    BY DEF NoStart
  <2>2. NoSession \in Session
    BY DEF NoSession, Session
  <2>3. 0 \in 0 .. MaxRequests /\ {} \subseteq Ids
    BY RequestsAssumption
  <2>4. inbox \in Seq([id : Ids, action : Actions]) /\ outbox \in Seq(Response)
    BY EmptySeq DEF ClientInit, WorkerInit
  <2>. QED  BY <2>1, <2>2, <2>3, <2>4 DEF ClientInit, WorkerInit, WorkerTypeOK, Session
<1>2. NothingHalfLoaded /\ StartInv
  BY DEF ClientInit, WorkerInit, NothingHalfLoaded, StartInv, NoStart, NoSession
<1>3. OnePlace
  <2>1. SeqIds(<<>>) = {} /\ DistinctIds(<<>>)
    BY DEF SeqIds, DistinctIds
  <2>2. starting.ids = {} /\ refetching = {} /\ delivered = {} /\ inbox = <<>> /\ outbox = <<>>
    BY DEF ClientInit, WorkerInit, NoStart
  <2>. QED  BY <2>1, <2>2 DEF OnePlace, Apart
<1>. QED  BY <1>1, <1>2, <1>3 DEF WorkerInv

(* Every step of the worker and of its client keeps the invariant. *)
LEMMA WorkerNextInv == WorkerInv /\ [WorkerNext]_vars => WorkerInv'
<1>. SUFFICES ASSUME WorkerInv, [WorkerNext]_vars PROVE WorkerInv'
  OBVIOUS
<1>1. CASE Turn
  BY <1>1, WorkerStepInv DEF Turn
<1>2. CASE Deliver
  BY <1>2, ClientInv DEF Deliver, Receive, workerVars
<1>3. ASSUME NEW a \in Actions, Ask(a) PROVE WorkerInv'
  BY <1>3, ClientInv DEF Ask, workerVars
<1>4. CASE UNCHANGED vars
  BY <1>4, ClientInv DEF vars, workerVars
<1>. QED  BY <1>1, <1>2, <1>3, <1>4 DEF WorkerNext

(* The positions of an id in a queue that has it once, or not at all. *)
LEMMA PositionsOfId ==
  ASSUME NEW S, NEW s \in Seq(S), DistinctIds(s), NEW id
  PROVE  Cardinality({i \in DOMAIN s : s[i].id = id}) = IF id \in SeqIds(s) THEN 1 ELSE 0
<1>. DEFINE P == {i \in DOMAIN s : s[i].id = id}
<1>1. CASE id \in SeqIds(s)
  <2>1. PICK k \in DOMAIN s : s[k].id = id
    BY <1>1 DEF SeqIds
  <2>2. P = {k}
    BY <2>1 DEF DistinctIds
  <2>3. Cardinality(P) = 1
    BY <2>2, FS_Singleton
  <2>. QED  BY <1>1, <2>3
<1>2. CASE id \notin SeqIds(s)
  <2>1. P = {}
    BY <1>2 DEF SeqIds
  <2>2. Cardinality(P) = 0
    BY <2>1, FS_EmptySet
  <2>. QED  BY <1>2, <2>2
<1>. QED  BY <1>1, <1>2

(* A request is in one place exactly when it is in one of the five. *)
LEMMA PlacesOfId ==
  ASSUME WorkerInv, NEW id
  PROVE  Places(id) = IF id \in SeqIds(inbox) \cup SeqIds(outbox) \cup starting.ids
                                  \cup refetching \cup delivered
                        THEN 1 ELSE 0
<1>1. /\ inbox \in Seq(Message) /\ outbox \in Seq(Response)
      /\ DistinctIds(inbox) /\ DistinctIds(outbox)
      /\ Apart(SeqIds(inbox), SeqIds(outbox), starting.ids, refetching, delivered)
  BY DEF WorkerInv, WorkerTypeOK, OnePlace, Message
<1>2. /\ Cardinality({i \in DOMAIN inbox : inbox[i].id = id})
           = IF id \in SeqIds(inbox) THEN 1 ELSE 0
      /\ Cardinality({i \in DOMAIN outbox : outbox[i].id = id})
           = IF id \in SeqIds(outbox) THEN 1 ELSE 0
  BY <1>1, PositionsOfId
<1>3. Places(id) = (IF id \in SeqIds(inbox) THEN 1 ELSE 0)
                   + (IF id \in SeqIds(outbox) THEN 1 ELSE 0)
                   + (IF id \in starting.ids THEN 1 ELSE 0)
                   + (IF id \in refetching THEN 1 ELSE 0)
                   + (IF id \in delivered THEN 1 ELSE 0)
  BY <1>2 DEF Places
<1>. QED  BY <1>1, <1>3 DEF Apart

(* Whatever the client posts, and whenever imports and fetches settle, no     *)
(* request is answered twice and a failed load leaves nothing half loaded.    *)
THEOREM WorkerIsConsistent == WorkerSpec => []WorkerConsistent
<1>1. WorkerInv => WorkerConsistent
  <2>. SUFFICES ASSUME WorkerInv PROVE WorkerConsistent
    OBVIOUS
  <2>1. AnsweredOnce
    BY PlacesOfId DEF AnsweredOnce
  <2>. QED  BY <2>1 DEF WorkerInv, WorkerConsistent
<1>. QED  BY <1>1, ClientInitInv, WorkerNextInv, PTL DEF WorkerSpec

-----------------------------------------------------------------------------
(* The worker's steps, seen from the page *)

(* The page waits for at most one request, and knows which. *)
LEMMA AwaitedCases ==
  ASSUME IInv
  PROVE  /\ \A x, y \in Awaited : x = y
         /\ \A x \in Awaited : x = loading.id \/ x = command.id
         /\ loading.id # 0 => loading.on /\ ~ready /\ command.id = 0 /\ Awaited = {loading.id}
         /\ command.id # 0 => ready /\ busy /\ loading.id = 0 /\ Awaited = {command.id}
         /\ loading.id = 0 /\ command.id = 0 => Awaited = {}
<1>1. OneAwaited
  BY DEF IInv, PageInv
<1>2. /\ loading.id # 0 => loading.on /\ ~ready /\ command.id = 0
      /\ command.id # 0 => ready /\ busy /\ loading.id = 0
  BY <1>1 DEF OneAwaited, NoLoad
<1>3. /\ loading.id # 0 => Awaited = {loading.id}
      /\ command.id # 0 => Awaited = {command.id}
      /\ loading.id = 0 /\ command.id = 0 => Awaited = {}
  BY <1>2 DEF Awaited
<1>4. \A x \in Awaited : x = loading.id \/ x = command.id
  BY DEF Awaited
<1>. QED  BY <1>2, <1>3, <1>4

(* Queues without ids are empty. *)
LEMMA NoIds ==
  ASSUME NEW S, NEW s \in Seq(S), SeqIds(s) = {}
  PROVE  s = <<>> /\ DOMAIN s = {}
<1>1. DOMAIN s = {}
  BY DEF SeqIds
<1>. QED  BY <1>1, TailIds

\* What a step of the worker does, for a page that waits for one request.
Progress ==
  /\ refetching' = {} /\ posted' = posted /\ delivered' = delivered
  /\ SeqIds(inbox') \cup SeqIds(outbox') \cup starting'.ids = InWork
  /\ inbox' = inbox \/ inbox' = <<>>
  /\ \A i \in DOMAIN outbox' : AnswerCurrent(outbox[i])'
  /\ SessionInv'
  /\ ready => busy

(* Such a step keeps what the page believes. *)
LEMMA ProgressInv ==
  ASSUME IInv, script = "running", Progress, WorkerInv', UNCHANGED pageVars
  PROVE  IInv'
<1>1. /\ UNCHANGED <<script, ready, loading, command, prompt, cleared, commands>>
      /\ Awaited' = Awaited /\ posted' = posted /\ delivered' = delivered
  BY DEF pageVars, Awaited, Progress
<1>2. PageTypeOK'
  BY <1>1 DEF IInv, PageInv, PageTypeOK
<1>3. InWork' = InWork
  BY DEF Progress, InWork, SeqIds
<1>4. WorkInv'
  BY <1>1, <1>3 DEF IInv, PageInv, WorkInv
<1>5. OneAwaited'
  BY <1>1 DEF IInv, PageInv, OneAwaited, busy
<1>6. PromptAgrees'
  BY <1>1 DEF Progress, PromptAgrees, busy
<1>7. (\A i \in DOMAIN inbox : inbox[i].id = loading.id => inbox[i].action = "load")'
  <2>1. CASE inbox' = inbox
    BY <1>1, <2>1 DEF IInv, PageInv
  <2>2. CASE inbox' = <<>>
    <3>1. DOMAIN inbox' = {}
      BY <2>2
    <3>. QED  BY <3>1
  <2>. QED  BY <2>1, <2>2 DEF Progress
<1>8. (\A i \in DOMAIN outbox : AnswerCurrent(outbox[i]))'
  BY DEF Progress
<1>9. PostedBound'
  BY <1>1 DEF IInv, PageInv, PostedBound, AttemptsLeft, CommandLeft, RoundsLeft, busy
<1>10. refetching' = {} /\ SessionInv' /\ (script # "running" => Untouched)'
  BY <1>1 DEF Progress
<1>. QED  BY <1>2, <1>4, <1>5, <1>6, <1>7, <1>8, <1>9, <1>10 DEF IInv, PageInv

(* A promise that is under way is for the load that the page waits for. *)
LEMMA SettleAlone ==
  ASSUME IInv, script = "running", starting.stage # "none"
  PROVE  /\ starting.ids = {loading.id} /\ loading.id # 0 /\ command.id = 0 /\ ~ready
         /\ SeqIds(inbox) = {} /\ SeqIds(outbox) = {} /\ outbox = <<>> /\ DOMAIN outbox = {}
         /\ refetching = {} /\ InWork = starting.ids
<1>1. /\ InWork = Awaited /\ outbox \in Seq(Response) /\ refetching = {}
      /\ Apart(SeqIds(inbox), SeqIds(outbox), starting.ids, refetching, delivered)
      /\ starting.ids # {} /\ starting.stage \in {"import", "library"}
  BY DEF IInv, PageInv, WorkInv, WorkerInv, OnePlace, WorkerTypeOK, StartInv
<1>2. ~ready
  BY <1>1 DEF IInv, PageInv, SessionInv, Loaded, WorkerInv, StartInv
<1>3. PICK x \in starting.ids : TRUE
  BY <1>1
<1>4. x \in Awaited
  BY <1>1, <1>3 DEF InWork
<1>5. Awaited = {x} /\ loading.id = x /\ loading.id # 0 /\ command.id = 0
  <2>1. x # 0
    BY <1>4 DEF Awaited
  <2>. QED  BY <1>2, <1>4, <2>1, AwaitedCases
<1>6. starting.ids = {x} /\ SeqIds(inbox) = {} /\ SeqIds(outbox) = {}
  BY <1>1, <1>3, <1>5 DEF InWork, Apart
<1>7. outbox = <<>> /\ DOMAIN outbox = {}
  BY <1>1, <1>6, NoIds
<1>. QED  BY <1>1, <1>2, <1>5, <1>6, <1>7

(* A message that the worker takes is all there is to do. *)
LEMMA TakeAlone ==
  ASSUME IInv, script = "running", NEW a, Take(a)
  PROVE  LET id == Head(inbox).id IN
         /\ InWork = {id} /\ inbox' = <<>> /\ SeqIds(inbox') = {}
         /\ outbox = <<>> /\ SeqIds(outbox) = {} /\ DOMAIN outbox = {}
         /\ starting.ids = {} /\ starting.stage = "none"
         /\ posted' = posted /\ delivered' = delivered
         /\ id = loading.id => a = "load" /\ ~ready /\ id # command.id
         /\ id = command.id => ready
         /\ id \in Ids
         /\ ready => busy
         /\ runtime => Loaded
<1>. DEFINE id == Head(inbox).id
<1>1. /\ id \in Ids /\ id \notin SeqIds(inbox') /\ inbox' \in Seq(Message)
      /\ 1 \in DOMAIN inbox /\ Head(inbox) = inbox[1]
      /\ SeqIds(inbox) = SeqIds(inbox') \cup {id}
      /\ posted' = posted /\ delivered' = delivered
  BY TakeFacts DEF IInv
<1>2. /\ InWork = Awaited /\ outbox \in Seq(Response)
      /\ Apart(SeqIds(inbox), SeqIds(outbox), starting.ids, refetching, delivered)
  BY DEF IInv, PageInv, WorkInv, WorkerInv, OnePlace, WorkerTypeOK
<1>3. Head(inbox).action = a
  BY DEF Take
<1>4. id = loading.id => a = "load"
  BY <1>1, <1>3 DEF IInv, PageInv
<1>5. id # 0
  BY <1>1, RequestsAssumption DEF Ids
<1>6. starting.ids = {} => starting.stage = "none"
  BY DEF IInv, WorkerInv, StartInv
<1>. HIDE DEF id
<1>7. id \in Awaited
  BY <1>1, <1>2 DEF InWork
<1>8. Awaited = {id} /\ (id = loading.id \/ id = command.id)
  BY <1>7, AwaitedCases
<1>9. SeqIds(inbox') = {} /\ SeqIds(outbox) = {} /\ starting.ids = {}
  BY <1>1, <1>2, <1>8 DEF InWork, Apart
<1>10. inbox' = <<>> /\ outbox = <<>> /\ DOMAIN outbox = {}
  BY <1>1, <1>2, <1>9, NoIds
<1>11. /\ id = loading.id => ~ready /\ id # command.id
       /\ id = command.id => ready /\ busy
       /\ ready => busy
  <2>1. CASE id = loading.id
    BY <1>5, <2>1, AwaitedCases
  <2>2. CASE id = command.id
    BY <1>5, <2>2, AwaitedCases
  <2>. QED  BY <1>8, <2>1, <2>2
<1>12. runtime => Loaded
  BY <1>6, <1>9 DEF IInv, WorkerInv, NothingHalfLoaded, PageInv, SessionInv, Loaded
<1>. QED  BY <1>1, <1>2, <1>4, <1>6, <1>8, <1>9, <1>10, <1>11, <1>12 DEF id

(* A message answered at once leaves its answer and nothing else. *)
LEMMA AnswerProgress ==
  ASSUME IInv, script = "running", NEW a, Take(a), NEW r \in Response, r.id = Head(inbox).id,
         outbox' = Append(outbox, r), UNCHANGED <<runtime, starting, refetching, packLoaded, library>>,
         UNCHANGED pageVars, SessionInv', AnswerCurrent(r)'
  PROVE  Progress
<1>1. /\ InWork = {r.id} /\ inbox' = <<>> /\ SeqIds(inbox') = {} /\ outbox = <<>>
      /\ SeqIds(outbox) = {} /\ starting.ids = {}
      /\ posted' = posted /\ delivered' = delivered
      /\ ready => busy
  BY TakeAlone
<1>2. outbox' \in Seq(Response) /\ SeqIds(outbox') = {r.id} /\ outbox' = <<r>>
  <2>1. outbox \in Seq(Response)
    BY DEF IInv, WorkerInv, WorkerTypeOK
  <2>2. outbox' \in Seq(Response) /\ SeqIds(outbox') = SeqIds(outbox) \cup {r.id}
    BY <2>1, AppendIds
  <2>3. outbox' = <<r>>
    BY <1>1
  <2>. QED  BY <1>1, <2>2, <2>3
<1>3. ASSUME NEW i \in DOMAIN outbox' PROVE AnswerCurrent(outbox[i])'
  <2>1. outbox'[i] = r
    BY <1>2, <1>3
  <2>. QED  BY <2>1 DEF AnswerCurrent
<1>4. SeqIds(inbox') \cup SeqIds(outbox') \cup starting'.ids = InWork
  BY <1>1, <1>2
<1>5. refetching' = {}
  BY DEF IInv, PageInv
<1>. QED  BY <1>1, <1>3, <1>4, <1>5 DEF Progress

(* loadRuntime, for the page. *)
LEMMA LoadProgress ==
  ASSUME IInv, script = "running", Load, UNCHANGED pageVars
  PROVE  Progress
<1>. DEFINE id == Head(inbox).id
<1>1. Take("load")
  BY DEF Load
<1>2. /\ InWork = {id} /\ inbox' = <<>> /\ SeqIds(inbox') = {} /\ outbox = <<>>
      /\ SeqIds(outbox) = {} /\ DOMAIN outbox = {}
      /\ starting.ids = {} /\ starting.stage = "none"
      /\ posted' = posted /\ delivered' = delivered
      /\ id \in Ids
      /\ ready => busy
      /\ runtime => Loaded
  BY <1>1, TakeAlone
<1>3. refetching = {} /\ SessionInv /\ session \in Session /\ library \in BOOLEAN
  BY DEF IInv, PageInv, WorkerInv, WorkerTypeOK, Session
<1>4. ready' = ready /\ loading' = loading /\ command' = command
  BY DEF pageVars
<1>5. CASE /\ runtime /\ packLoaded
           /\ session' = Ensured(library)
           /\ outbox' = Append(outbox, Answer(id, "load", TRUE, session'.cont))
           /\ UNCHANGED <<runtime, starting, refetching, packLoaded, library>>
  <2>1. session' = session /\ session.cont \in BOOLEAN
    <3>1. session.live
      BY <1>2, <1>5 DEF Loaded
    <3>2. session' = session
      BY <1>3, <1>5, <3>1, SessionShapes
    <3>. QED  BY <1>3, <3>2 DEF Session
  <2>2. PICK r \in Response : r.id = id /\ r.cont = session'.cont /\ outbox' = Append(outbox, r)
    <3>. DEFINE q == Answer(id, "load", TRUE, session'.cont)
    <3>1. q \in Response /\ q.id = id /\ q.cont = session'.cont /\ outbox' = Append(outbox, q)
      BY <1>2, <1>5, <2>1 DEF Answer, Response, Actions
    <3>. HIDE DEF q
    <3>. QED  BY <3>1
  <2>3. SessionInv'
    BY <1>3, <1>4, <1>5, <2>1 DEF SessionInv, Loaded
  <2>4. AnswerCurrent(r)'
    <3>1. Loaded'
      BY <1>2, <1>5, <2>1 DEF Loaded
    <3>2. r.cont <=> session'.cont
      BY <2>2
    <3>. QED  BY <3>1, <3>2 DEF AnswerCurrent
  <2>. QED  BY <1>1, <1>5, <2>2, <2>3, <2>4, AnswerProgress
<1>6. CASE runtime /\ ~packLoaded
  BY <1>2, <1>6 DEF Loaded
<1>7. CASE /\ ~runtime
           /\ starting' = IF starting.stage = "none" THEN [stage |-> "import", ids |-> {id}]
                                                     ELSE [starting EXCEPT !.ids = @ \cup {id}]
           /\ UNCHANGED <<outbox, runtime, refetching, packLoaded, library, session>>
  <2>1. starting'.stage = "import" /\ starting'.ids = {id}
    BY <1>2, <1>7
  <2>2. SessionInv'
    BY <1>3, <1>4, <1>7, <2>1 DEF SessionInv, Loaded
  <2>3. SeqIds(inbox') \cup SeqIds(outbox') \cup starting'.ids = InWork
    BY <1>2, <1>7, <2>1
  <2>4. DOMAIN outbox' = {} /\ refetching' = {}
    BY <1>2, <1>3, <1>7
  <2>. QED  BY <1>2, <2>2, <2>3, <2>4 DEF Progress
<1>. QED  BY <1>5, <1>6, <1>7 DEF Load

(* executeSource, for the page. *)
LEMMA ExecuteProgress ==
  ASSUME IInv, script = "running", Execute, UNCHANGED pageVars
  PROVE  Progress
<1>. DEFINE id == Head(inbox).id
<1>1. /\ Take("execute") /\ UNCHANGED <<runtime, starting, refetching, packLoaded, library>>
      /\ session' \in Session
  BY ExecuteCases DEF IInv
<1>2. PICK ok, cont \in BOOLEAN :
        /\ outbox' = Append(outbox, Answer(id, "execute", ok, cont))
        /\ \/ ~runtime /\ session' = session
           \/ /\ runtime /\ session'.live /\ session'.library = Ensured(library).library
              /\ session'.broken \/ session'.cont = cont
  BY ExecuteCases DEF IInv
<1>3. /\ id \in Ids /\ id # loading.id
      /\ id = command.id => ready
      /\ runtime => Loaded
      /\ starting.stage = "none"
  BY <1>1, TakeAlone
<1>4. /\ ready' = ready /\ loading' = loading /\ command' = command /\ SessionInv
      /\ session \in Session /\ library \in BOOLEAN
  BY DEF pageVars, IInv, PageInv, WorkerInv, WorkerTypeOK, Session
<1>5. runtime => session'.live /\ session'.library
  <2>1. runtime => session.live /\ session.library
    BY <1>3 DEF Loaded
  <2>2. runtime => Ensured(library) = session
    BY <1>4, <2>1, SessionShapes
  <2>. QED  BY <1>2, <2>1, <2>2
<1>6. SessionInv'
  <2>1. /\ ready => runtime /\ packLoaded
        /\ runtime' = runtime /\ packLoaded' = packLoaded /\ starting' = starting
    BY <1>1, <1>4 DEF SessionInv, Loaded
  <2>. QED  BY <1>3, <1>4, <1>5, <2>1 DEF SessionInv, Loaded
<1>7. PICK r \in Response : r.id = id /\ r.cont = cont /\ outbox' = Append(outbox, r)
  <2>. DEFINE q == Answer(id, "execute", ok, cont)
  <2>1. q \in Response /\ q.id = id /\ q.cont = cont /\ outbox' = Append(outbox, q)
    BY <1>2, <1>3 DEF Answer, Response, Actions
  <2>. HIDE DEF q
  <2>. QED  BY <2>1
<1>8. AnswerCurrent(r)'
  <2>1. id = command.id => session'.broken \/ session'.cont = cont
    BY <1>2, <1>3, <1>4 DEF SessionInv, Loaded
  <2>. QED  BY <1>3, <1>4, <1>7, <2>1 DEF AnswerCurrent
<1>. QED  BY <1>1, <1>6, <1>7, <1>8, AnswerProgress

(* executeSource on a snippet that runs for ever, for the page: the request   *)
(* that the page waits for stays at the head of the inbox.                    *)
LEMMA ExecuteForEverProgress ==
  ASSUME IInv, script = "running", ExecuteForEver, UNCHANGED pageVars
  PROVE  Progress
<1>1. /\ UNCHANGED <<inbox, outbox, posted, delivered, runtime, starting, refetching,
                     packLoaded, library>>
      /\ runtime /\ inbox # <<>> /\ session'.live
      /\ session.live => session'.library = session.library /\ session'.cont = session.cont
                         /\ session'.broken = session.broken
  BY ForEverCases DEF IInv
<1>2. /\ InWork = Awaited /\ refetching = {} /\ SessionInv
      /\ inbox \in Seq(Message)
      /\ \A i \in DOMAIN outbox : AnswerCurrent(outbox[i])
  BY DEF IInv, PageInv, WorkInv, WorkerInv, WorkerTypeOK, Message
<1>3. UNCHANGED <<ready, loading, command>>
  BY DEF pageVars
<1>4. PICK id \in SeqIds(inbox) : id # 0
  <2>1. Head(inbox) \in Message /\ Head(inbox).id \in SeqIds(inbox)
    BY <1>1, <1>2, TailIds
  <2>2. Head(inbox).id # 0
    BY <2>1, RequestsAssumption DEF Message, Ids
  <2>. QED  BY <2>1, <2>2
<1>5. starting.stage = "none"
  BY <1>4, SettleAlone
<1>6. runtime => Loaded
  BY <1>2, <1>5 DEF IInv, WorkerInv, NothingHalfLoaded, SessionInv, Loaded
<1>7. ready => busy
  <2>1. id \in Awaited
    BY <1>2, <1>4 DEF InWork
  <2>. QED  BY <1>4, <2>1, AwaitedCases
<1>8. /\ Loaded' /\ session'.cont = session.cont /\ session'.broken = session.broken
  BY <1>1, <1>6 DEF Loaded
<1>9. SessionInv'
  BY <1>1, <1>3, <1>5, <1>8 DEF SessionInv, Loaded
<1>10. \A i \in DOMAIN outbox' : AnswerCurrent(outbox[i])'
  BY <1>1, <1>2, <1>3, <1>8 DEF AnswerCurrent
<1>11. SeqIds(inbox') \cup SeqIds(outbox') \cup starting'.ids = InWork
  BY <1>1 DEF InWork
<1>. QED  BY <1>1, <1>2, <1>7, <1>9, <1>10, <1>11 DEF Progress

(* resetSession, for the page. *)
LEMMA ResetProgress ==
  ASSUME IInv, script = "running", Reset, UNCHANGED pageVars
  PROVE  Progress
<1>. DEFINE id == Head(inbox).id
<1>1. /\ Take("reset") /\ UNCHANGED <<runtime, starting, refetching, packLoaded, library>>
      /\ session' \in Session
  BY ResetCases DEF IInv
<1>2. PICK ok \in BOOLEAN :
        /\ outbox' = Append(outbox, Answer(id, "reset", ok, FALSE))
        /\ \/ ~runtime /\ session' = session
           \/ runtime /\ session' = NewSession(library)
           \/ runtime /\ session' = session /\ session.broken
  BY ResetCases DEF IInv
<1>3. /\ id \in Ids /\ id # loading.id
      /\ id = command.id => ready
      /\ runtime => Loaded
      /\ starting.stage = "none"
  BY <1>1, TakeAlone
<1>4. /\ ready' = ready /\ loading' = loading /\ command' = command /\ SessionInv
      /\ session \in Session /\ library \in BOOLEAN /\ (packLoaded => library)
  BY DEF pageVars, IInv, PageInv, WorkerInv, WorkerTypeOK, Session, NothingHalfLoaded
<1>5. /\ NewSession(library).live /\ ~NewSession(library).cont
      /\ NewSession(library).library = library
  BY <1>4, SessionShapes
<1>6. runtime => session'.live /\ session'.library
  BY <1>2, <1>3, <1>4, <1>5 DEF Loaded
<1>7. SessionInv'
  <2>1. /\ ready => runtime /\ packLoaded
        /\ runtime' = runtime /\ packLoaded' = packLoaded /\ starting' = starting
    BY <1>1, <1>4 DEF SessionInv, Loaded
  <2>. QED  BY <1>3, <1>4, <1>6, <2>1 DEF SessionInv, Loaded
<1>8. PICK r \in Response : r.id = id /\ r.cont = FALSE /\ outbox' = Append(outbox, r)
  <2>. DEFINE q == Answer(id, "reset", ok, FALSE)
  <2>1. q \in Response /\ q.id = id /\ q.cont = FALSE /\ outbox' = Append(outbox, q)
    BY <1>2, <1>3 DEF Answer, Response, Actions
  <2>. HIDE DEF q
  <2>. QED  BY <2>1
<1>9. AnswerCurrent(r)'
  <2>1. id = command.id => session'.broken \/ ~session'.cont
    BY <1>2, <1>3, <1>4, <1>5 DEF SessionInv, Loaded
  <2>. QED  BY <1>3, <1>4, <1>8, <2>1 DEF AnswerCurrent
<1>. QED  BY <1>1, <1>7, <1>8, <1>9, AnswerProgress

(* The promise settles: its load is answered, with what is so from now on. *)
LEMMA SettleProgress ==
  ASSUME IInv, script = "running", starting.stage # "none", UNCHANGED pageVars,
         NEW ok \in BOOLEAN, NEW cont \in BOOLEAN,
         AnswerAll(starting.ids, "load", ok, cont), starting' = NoStart,
         UNCHANGED <<inbox, posted, delivered, refetching>>, SessionInv',
         ok => Loaded' /\ session'.cont = cont
  PROVE  Progress
<1>1. /\ starting.ids = {loading.id} /\ loading.id # 0 /\ command.id = 0 /\ ~ready
      /\ SeqIds(inbox) = {} /\ SeqIds(outbox) = {} /\ outbox = <<>> /\ DOMAIN outbox = {}
      /\ refetching = {} /\ InWork = starting.ids
  BY SettleAlone
<1>2. /\ SeqIds(outbox') = SeqIds(outbox) \cup starting.ids
      /\ \A i \in DOMAIN outbox' :
           \/ i \in DOMAIN outbox /\ outbox'[i] = outbox[i]
           \/ /\ outbox'[i].id \in starting.ids
              /\ outbox'[i].ok = ok /\ outbox'[i].cont = cont
  BY AnswerAllFacts DEF IInv
<1>3. loading' = loading /\ command' = command
  BY DEF pageVars
<1>4. ASSUME NEW i \in DOMAIN outbox' PROVE AnswerCurrent(outbox[i])'
  <2>1. outbox'[i].id = loading.id /\ outbox'[i].ok = ok /\ outbox'[i].cont = cont
    BY <1>1, <1>2, <1>4
  <2>. QED  BY <1>1, <1>3, <2>1 DEF AnswerCurrent
<1>5. starting'.ids = {}
  BY DEF NoStart
<1>6. SeqIds(inbox') \cup SeqIds(outbox') \cup starting'.ids = InWork
  BY <1>1, <1>2, <1>5
<1>. QED  BY <1>1, <1>4, <1>6 DEF Progress

(* The catch of the load promise, for the page. *)
LEMMA LoadFailsProgress ==
  ASSUME IInv, script = "running", starting.stage # "none", LoadFails, UNCHANGED pageVars
  PROVE  Progress
<1>1. AnswerAll(starting.ids, "load", FALSE, FALSE) /\ starting' = NoStart
  BY DEF LoadFails
<1>2. SessionInv'
  <2>1. ~ready
    BY SettleAlone
  <2>. QED  BY <2>1 DEF LoadFails, SessionInv, NoStart, pageVars
<1>3. FALSE \in BOOLEAN
  OBVIOUS
<1>. QED  BY <1>1, <1>2, <1>3, SettleProgress DEF LoadFails

(* The import settles, for the page. *)
LEMMA ImportedProgress ==
  ASSUME IInv, script = "running", Imported, UNCHANGED pageVars
  PROVE  Progress
<1>1. starting.stage # "none"
  BY DEF Imported
<1>2. CASE LoadFails
  BY <1>1, <1>2, LoadFailsProgress
<1>3. CASE /\ runtime' = TRUE /\ session' = NoSession /\ packLoaded' = FALSE
           /\ starting' = [starting EXCEPT !.stage = "library"]
           /\ UNCHANGED <<inbox, outbox, posted, delivered, refetching, library>>
  <2>1. /\ DOMAIN outbox = {} /\ ~ready /\ refetching = {}
    BY <1>1, SettleAlone
  <2>2. starting'.ids = starting.ids
    <3>1. starting \in [stage : {"none", "import", "library"}, ids : SUBSET Ids]
      BY DEF IInv, WorkerInv, WorkerTypeOK
    <3>. QED  BY <1>3, <3>1
  <2>3. SessionInv'
    BY <1>3, <2>1 DEF SessionInv, NoSession, pageVars
  <2>4. SeqIds(inbox') \cup SeqIds(outbox') \cup starting'.ids = InWork
    BY <1>3, <2>2 DEF InWork
  <2>. QED  BY <1>3, <2>1, <2>3, <2>4 DEF Progress
<1>. QED  BY <1>2, <1>3 DEF Imported

(* The fetch settles, for the page: the new session has the library. *)
LEMMA FetchedProgress ==
  ASSUME IInv, script = "running", Fetched, UNCHANGED pageVars
  PROVE  Progress
<1>1. starting.stage = "library" /\ starting.stage # "none"
  BY DEF Fetched
<1>2. CASE LoadFails
  BY <1>1, <1>2, LoadFailsProgress
<1>3. CASE /\ library' = TRUE /\ packLoaded' = TRUE
           /\ session' = Ensured(TRUE)
           /\ AnswerAll(starting.ids, "load", TRUE, session'.cont)
           /\ starting' = NoStart
           /\ UNCHANGED <<inbox, posted, delivered, runtime, refetching>>
  <2>1. /\ session \in Session /\ ~session.live /\ runtime
    BY <1>1 DEF IInv, PageInv, SessionInv, WorkerInv, WorkerTypeOK, StartInv, Session
  <2>2. session' = NewSession(TRUE)
    BY <1>3, <2>1, SessionShapes
  <2>3. session'.live /\ session'.library /\ session'.cont = FALSE
    BY <2>2 DEF NewSession, NoSession
  <2>4. Loaded' /\ SessionInv'
    BY <1>3, <2>1, <2>3 DEF Loaded, SessionInv, NoStart
  <2>5. AnswerAll(starting.ids, "load", TRUE, FALSE)
    BY <1>3, <2>3
  <2>6. TRUE \in BOOLEAN /\ FALSE \in BOOLEAN
    OBVIOUS
  <2>. QED  BY <1>1, <1>3, <2>3, <2>4, <2>5, <2>6, SettleProgress
<1>. QED  BY <1>2, <1>3 DEF Fetched

(* Every step of the worker keeps the page's invariant. *)
LEMMA WorkerRunsInv ==
  ASSUME IInv, WorkerRuns
  PROVE  IInv'
<1>1. script = "running" /\ UNCHANGED pageVars /\ (Handle \/ Settle)
  BY DEF WorkerRuns, Turn
<1>2. WorkerInv'
  BY <1>1, WorkerStepInv DEF IInv
<1>3. refetching = {}
  BY DEF IInv, PageInv
<1>4. Progress
  BY <1>1, <1>3, LoadProgress, ExecuteProgress, ExecuteForEverProgress, ResetProgress,
     ImportedProgress, FetchedProgress DEF Handle, Settle
<1>. QED  BY <1>1, <1>2, <1>4, ProgressInv

-----------------------------------------------------------------------------
(* The page's steps *)

\* What every step of the page keeps, whatever it posts or receives.
PageMoves ==
  /\ UNCHANGED workerVars
  /\ PageTypeOK' /\ OneAwaited' /\ PromptAgrees' /\ PostedBound'
  /\ script' = script \/ script = "loading"
  /\ ready' => ready \/ (script = "running" /\ Loaded)

(* A page that waits for nothing, and whose worker's script did not fail,     *)
(* left nothing to do.                                                        *)
LEMMA NothingAwaited ==
  ASSUME IInv, Awaited = {}
  PROVE  /\ outbox = <<>> /\ DOMAIN outbox = {} /\ SeqIds(outbox) = {} /\ starting.ids = {}
         /\ script # "failed" => SeqIds(inbox) = {}
<1>1. outbox \in Seq(Response)
  BY DEF IInv, WorkerInv, WorkerTypeOK
<1>2. CASE script # "failed"
  <2>1. InWork = {}
    BY <1>2 DEF IInv, PageInv, WorkInv
  <2>2. SeqIds(outbox) = {} /\ SeqIds(inbox) = {} /\ starting.ids = {}
    BY <2>1 DEF InWork
  <2>. QED  BY <1>1, <2>2, NoIds
<1>3. CASE script = "failed"
  <2>1. outbox = <<>> /\ starting.ids = {}
    BY <1>3 DEF IInv, PageInv, Untouched, NoStart
  <2>2. SeqIds(outbox) = {}
    BY <2>1 DEF SeqIds
  <2>. QED  BY <1>1, <1>3, <2>1, <2>2, NoIds
<1>. QED  BY <1>2, <1>3

(* An answer that arrives is the one awaited, and nothing else is under way. *)
LEMMA Received ==
  ASSUME IInv, Receive
  PROVE  LET r == Head(outbox) IN
         /\ r \in Response /\ r.id \in 1 .. posted /\ script = "running"
         /\ Awaited = {r.id} /\ InWork = {r.id} /\ AnswerCurrent(r)
         /\ r.id = loading.id \/ r.id = command.id
         /\ SeqIds(inbox) = {} /\ inbox = <<>> /\ starting.ids = {}
         /\ outbox' = <<>> /\ DOMAIN outbox' = {} /\ SeqIds(outbox') = {}
         /\ delivered' = delivered \cup {r.id}
<1>. DEFINE r == Head(outbox)
<1>1. /\ r \in Response /\ 1 \in DOMAIN outbox /\ r = outbox[1] /\ outbox' \in Seq(Response)
      /\ SeqIds(outbox) = SeqIds(outbox') \cup {r.id} /\ r.id \notin SeqIds(outbox')
      /\ delivered' = delivered \cup {r.id}
  BY ReceiveFacts DEF IInv
<1>2. script = "running"
  BY DEF Receive, IInv, PageInv, Untouched
<1>3. /\ InWork = Awaited /\ inbox \in Seq(Message)
      /\ Apart(SeqIds(inbox), SeqIds(outbox), starting.ids, refetching, delivered)
      /\ SeqIds(outbox) \subseteq 1 .. posted
      /\ AnswerCurrent(outbox[1])
  BY <1>1, <1>2 DEF IInv, PageInv, WorkInv, WorkerInv, OnePlace, WorkerTypeOK, Message
<1>4. AnswerCurrent(r)
  BY <1>1, <1>3
<1>. HIDE DEF r
<1>5. r.id \in Awaited /\ r.id \in 1 .. posted
  BY <1>1, <1>3 DEF InWork
<1>6. Awaited = {r.id} /\ (r.id = loading.id \/ r.id = command.id)
  BY <1>5, AwaitedCases
<1>7. SeqIds(inbox) = {} /\ SeqIds(outbox') = {} /\ starting.ids = {}
  BY <1>1, <1>3, <1>6 DEF InWork, Apart
<1>8. inbox = <<>> /\ outbox' = <<>> /\ DOMAIN outbox' = {}
  BY <1>1, <1>3, <1>7, NoIds
<1>. QED  BY <1>1, <1>2, <1>3, <1>4, <1>5, <1>6, <1>7, <1>8 DEF r

(* A request that is posted has a new id. *)
LEMMA PostFacts ==
  ASSUME WorkerInv, NEW a \in Actions, Post(a)
  PROVE  /\ posted' = posted + 1 /\ posted \in Nat
         /\ SeqIds(inbox') = SeqIds(inbox) \cup {posted + 1}
         /\ \A i \in DOMAIN inbox' : inbox'[i].id = posted + 1 => inbox'[i].action = a
<1>1. posted' = posted + 1 /\ posted \in Nat
  BY RequestsAssumption DEF Post, WorkerInv, WorkerTypeOK
<1>2. PICK m : m = [id |-> posted + 1, action |-> a]
  OBVIOUS
<1>3. inbox' = Append(inbox, m) /\ m.id = posted + 1 /\ m.action = a
  BY <1>2 DEF Post
<1>4. PICK M : inbox \in Seq(M) /\ m \in M
  <2>1. inbox \in Seq([id : Ids, action : Actions])
    BY DEF WorkerInv, WorkerTypeOK
  <2>2. [id : Ids, action : Actions] \subseteq [id : Nat, action : Actions]
    BY RequestsAssumption DEF Ids
  <2>3. m \in [id : Nat, action : Actions]
    BY <1>1, <1>2
  <2>4. \A S, T : S \subseteq T => Seq(S) \subseteq Seq(T)
    BY LenProperties
  <2>5. inbox \in Seq([id : Nat, action : Actions])
    BY <2>1, <2>2, <2>4, Zenon
  <2>. QED  BY <2>3, <2>5, Zenon
<1>5. SeqIds(inbox') = SeqIds(inbox) \cup {posted + 1}
  <2>1. SeqIds(Append(inbox, m)) = SeqIds(inbox) \cup {m.id}
    BY <1>4, AppendIds
  <2>. QED  BY <1>3, <2>1
<1>6. ASSUME NEW i \in DOMAIN inbox', inbox'[i].id = posted + 1 PROVE inbox'[i].action = a
  <2>1. \/ i \in DOMAIN inbox /\ inbox'[i] = inbox[i]
        \/ inbox'[i] = m
    BY <1>3, <1>4, <1>6, AppendProperties, LenProperties
  <2>2. i \in DOMAIN inbox => inbox[i].id \in 1 .. posted
    BY DEF WorkerInv, OnePlace, SeqIds
  <2>. QED  BY <1>1, <1>3, <1>6, <2>1, <2>2
<1>. QED  BY <1>1, <1>5, <1>6

(* What follows from the shape of every page step. *)
LEMMA MovesKeep ==
  ASSUME IInv, PageMoves,
         \/ script = "running"
         \/ UNCHANGED <<outbox, delivered>>
  PROVE  /\ refetching' = {} /\ SessionInv'
         /\ (script # "running" => Untouched)'
<1>1. /\ UNCHANGED <<runtime, starting, refetching, packLoaded, library, session>>
      /\ script' = script \/ script = "loading"
      /\ ready' => ready \/ (script = "running" /\ Loaded)
      /\ PageTypeOK'
  BY DEF PageMoves, workerVars
<1>2. refetching' = {} /\ SessionInv'
  BY <1>1 DEF IInv, PageInv, SessionInv, Loaded
<1>3. (script # "running" => Untouched)'
  BY <1>1 DEF IInv, PageInv, Untouched
<1>. QED  BY <1>2, <1>3

(* A step that leaves every message and every awaited request alone. *)
LEMMA QuietInv ==
  ASSUME IInv, PageMoves, UNCHANGED <<inbox, posted, outbox, delivered>>,
         loading'.id = loading.id, command'.id = command.id
  PROVE  IInv'
<1>1. UNCHANGED <<runtime, starting, refetching, packLoaded, library, session>>
  BY DEF PageMoves, workerVars
<1>2. WorkerInv'
  BY ClientInv DEF IInv, PageMoves
<1>3. /\ refetching' = {} /\ SessionInv'
      /\ (script # "running" => Untouched)'
  BY MovesKeep
<1>4. WorkInv'
  <2>1. Awaited' = Awaited /\ InWork' = InWork
    BY <1>1 DEF Awaited, InWork, SeqIds
  <2>2. script' # "failed" => script # "failed"
    BY DEF PageMoves
  <2>. QED  BY <2>1, <2>2 DEF IInv, PageInv, WorkInv
<1>5. (\A i \in DOMAIN inbox : inbox[i].id = loading.id => inbox[i].action = "load")'
  BY DEF IInv, PageInv
<1>6. (\A i \in DOMAIN outbox : AnswerCurrent(outbox[i]))'
  BY <1>1 DEF IInv, PageInv, AnswerCurrent, Loaded
<1>. QED  BY <1>2, <1>3, <1>4, <1>5, <1>6 DEF IInv, PageInv, PageMoves

(* A step that posts a request, when nothing is awaited or what was awaited   *)
(* arrives: from now on the page waits for the new one.                       *)
LEMMA PostInv ==
  ASSUME IInv, PageMoves, NEW a \in Actions, Post(a), posted < MaxRequests,
         Receive \/ (Awaited = {} /\ UNCHANGED <<outbox, delivered>>),
         Awaited' = {posted + 1},
         loading'.id = 0 \/ (loading'.id = posted + 1 /\ a = "load")
  PROVE  IInv'
<1>1. UNCHANGED <<runtime, starting, refetching, packLoaded, library, session>>
  BY DEF PageMoves, workerVars
<1>2. WorkerInv'
  <2>1. Receive \/ UNCHANGED <<outbox, delivered>>
    OBVIOUS
  <2>. QED  BY <2>1, ClientInv DEF IInv, PageMoves
<1>3. /\ refetching' = {} /\ SessionInv'
      /\ (script # "running" => Untouched)'
  BY MovesKeep, Received
<1>4. /\ posted' = posted + 1 /\ posted \in Nat
      /\ SeqIds(inbox') = SeqIds(inbox) \cup {posted + 1}
      /\ \A i \in DOMAIN inbox' : inbox'[i].id = posted + 1 => inbox'[i].action = a
  BY PostFacts DEF IInv
<1>5. /\ DOMAIN outbox' = {} /\ SeqIds(outbox') = {} /\ starting'.ids = {}
      /\ script # "failed" => SeqIds(inbox) = {}
  BY <1>1, Received, NothingAwaited
<1>6. WorkInv'
  <2>1. InWork' = SeqIds(inbox) \cup {posted + 1}
    <3>1. InWork' = SeqIds(inbox') \cup SeqIds(outbox') \cup starting'.ids
      BY DEF InWork, SeqIds
    <3>. QED  BY <1>4, <1>5, <3>1
  <2>2. 1 .. posted \subseteq SeqIds(inbox) \cup delivered'
    <3>1. CASE Receive
      <4>1. 1 .. posted \subseteq InWork \cup delivered
        BY DEF IInv, PageInv, WorkInv
      <4>2. InWork = {Head(outbox).id} /\ delivered' = delivered \cup {Head(outbox).id}
        BY <3>1, Received
      <4>. QED  BY <4>1, <4>2
    <3>2. CASE Awaited = {} /\ UNCHANGED <<outbox, delivered>>
      BY <3>2, NothingAwaited DEF IInv, PageInv, WorkInv, InWork
    <3>. QED  BY <3>1, <3>2
  <2>3. delivered' \subseteq 1 .. posted
    <3>1. delivered \subseteq 1 .. posted
      BY DEF IInv, WorkerInv, OnePlace
    <3>. QED  BY <3>1, Received
  <2>4. posted + 1 \notin 1 .. posted /\ 1 .. (posted + 1) = (1 .. posted) \cup {posted + 1}
    BY <1>4
  <2>5. script' # "failed" => SeqIds(inbox) = {}
    BY <1>5 DEF PageMoves
  <2>. HIDE DEF PageMoves
  <2>. QED  BY <1>4, <2>1, <2>2, <2>3, <2>4, <2>5 DEF WorkInv
<1>7. (\A i \in DOMAIN inbox : inbox[i].id = loading.id => inbox[i].action = "load")'
  <2>1. CASE loading'.id = posted + 1 /\ a = "load"
    BY <1>4, <2>1
  <2>2. CASE loading'.id = 0
    <3>1. \A i \in DOMAIN inbox' : inbox'[i].id \in Ids
      <4>1. inbox' \in Seq(Message)
        BY <1>2 DEF WorkerInv, WorkerTypeOK, Message
      <4>2. \A i \in DOMAIN inbox' : inbox'[i] \in Message
        BY <4>1
      <4>. QED  BY <4>2 DEF Message
    <3>2. 0 \notin Ids
      BY RequestsAssumption DEF Ids
    <3>. QED  BY <2>2, <3>1, <3>2
  <2>. QED  BY <2>1, <2>2
<1>8. (\A i \in DOMAIN outbox : AnswerCurrent(outbox[i]))'
  BY <1>5
<1>. QED  BY <1>2, <1>3, <1>6, <1>7, <1>8 DEF IInv, PageInv, PageMoves

(* A step that receives the awaited answer and posts nothing. *)
LEMMA AnsweredInv ==
  ASSUME IInv, PageMoves, Receive, UNCHANGED <<inbox, posted>>, Awaited' = {}
  PROVE  IInv'
<1>1. UNCHANGED <<runtime, starting, refetching, packLoaded, library, session>>
  BY DEF PageMoves, workerVars
<1>2. WorkerInv'
  BY ClientInv DEF IInv, PageMoves
<1>3. /\ refetching' = {} /\ SessionInv'
      /\ (script # "running" => Untouched)'
  BY MovesKeep, Received
<1>4. /\ inbox' = <<>> /\ DOMAIN outbox' = {} /\ SeqIds(outbox') = {} /\ SeqIds(inbox') = {}
      /\ starting'.ids = {} /\ InWork = {Head(outbox).id}
      /\ delivered' = delivered \cup {Head(outbox).id}
  BY <1>1, Received
<1>5. WorkInv'
  <2>1. InWork' = {}
    <3>1. InWork' = SeqIds(inbox') \cup SeqIds(outbox') \cup starting'.ids
      BY DEF InWork, SeqIds
    <3>. QED  BY <1>4, <3>1
  <2>2. 1 .. posted' \subseteq delivered'
    BY <1>4 DEF IInv, PageInv, WorkInv
  <2>. QED  BY <2>1, <2>2 DEF WorkInv
<1>6. (\A i \in DOMAIN inbox : inbox[i].id = loading.id => inbox[i].action = "load")'
  <2>1. DOMAIN inbox' = {}
    BY <1>4
  <2>. QED  BY <2>1
<1>7. (\A i \in DOMAIN outbox : AnswerCurrent(outbox[i]))'
  BY <1>4
<1>. QED  BY <1>2, <1>3, <1>5, <1>6, <1>7 DEF IInv, PageInv, PageMoves

(* The attempts and commands that are left. *)
LEMMA LeftFacts ==
  ASSUME PageTypeOK
  PROVE  /\ AttemptsLeft \in Nat /\ CommandLeft \in {0, 1}
         /\ RoundsLeft(commands) \in Nat
         /\ commands < MaxCommands =>
              /\ RoundsLeft(commands + 1) \in Nat
              /\ RoundsLeft(commands) = RoundsLeft(commands + 1) + Retries + 2
<1>1. MaxCommands \in Nat /\ Retries \in Nat
  BY PageAssumption
<1>2. commands \in 0 .. MaxCommands /\ loading.attempt \in 0 .. Retries
  BY DEF PageTypeOK
<1>3. \A k \in Nat : (Retries + 2) * k \in Nat
  BY <1>1
<1>4. MaxCommands - commands \in Nat
  BY <1>1, <1>2
<1>5. RoundsLeft(commands) \in Nat
  BY <1>3, <1>4 DEF RoundsLeft
<1>6. AttemptsLeft \in Nat /\ CommandLeft \in {0, 1}
  BY <1>1, <1>2 DEF AttemptsLeft, CommandLeft
<1>7. ASSUME commands < MaxCommands
      PROVE  /\ RoundsLeft(commands + 1) \in Nat
             /\ RoundsLeft(commands) = RoundsLeft(commands + 1) + Retries + 2
  <2>1. PICK k \in Nat : k = MaxCommands - (commands + 1) /\ MaxCommands - commands = k + 1
    BY <1>1, <1>2, <1>7
  <2>2. (Retries + 2) * (k + 1) = (Retries + 2) * k + Retries + 2
    BY <1>1
  <2>. QED  BY <1>3, <2>1, <2>2 DEF RoundsLeft
<1>. QED  BY <1>5, <1>6, <1>7

(* The page's variables before a step. *)
LEMMA PageFacts ==
  ASSUME IInv
  PROVE  /\ PageTypeOK /\ OneAwaited /\ PromptAgrees /\ PostedBound
         /\ MaxRequests \in Nat /\ MaxCommands \in Nat /\ Retries \in Nat
         /\ posted \in 0 .. MaxRequests
         /\ loading \in [on : BOOLEAN, attempt : 0 .. Retries, id : 0 .. MaxRequests]
         /\ command \in [action : {"none", "execute", "reset"}, id : 0 .. MaxRequests]
         /\ commands \in 0 .. MaxCommands
         /\ script \in {"loading", "running", "failed"}
BY RequestsAssumption, PageAssumption
   DEF IInv, PageInv, PageTypeOK, WorkerInv, WorkerTypeOK

(* The worker's script begins to run. *)
LEMMA ScriptLoadsInv ==
  ASSUME IInv, ScriptLoads
  PROVE  IInv'
<1>1. /\ UNCHANGED <<inbox, posted, outbox, delivered, workerVars>>
      /\ UNCHANGED <<ready, loading, command, prompt, cleared, commands, session>>
      /\ script = "loading" /\ script' = "running"
  BY DEF ScriptLoads, vars, workerVars
<1>2. PageTypeOK' /\ OneAwaited' /\ PromptAgrees' /\ PostedBound'
  BY <1>1, PageFacts DEF PageTypeOK, OneAwaited, PromptAgrees, PostedBound, busy, AttemptsLeft,
     CommandLeft, RoundsLeft
<1>. QED  BY <1>1, <1>2, QuietInv DEF PageMoves

(* The clear button. *)
LEMMA ClearInv ==
  ASSUME IInv, Clear
  PROVE  IInv'
<1>1. /\ UNCHANGED <<inbox, posted, outbox, delivered, workerVars>>
      /\ UNCHANGED <<script, ready, loading, command, session>>
      /\ commands < MaxCommands /\ commands' = commands + 1
      /\ prompt' = FALSE /\ cleared' = TRUE
  BY DEF Clear, vars, workerVars
<1>2. PageTypeOK' /\ OneAwaited' /\ PromptAgrees'
  <2>1. PageTypeOK'
    <3>1. commands' \in 0 .. MaxCommands
      BY <1>1, PageFacts
    <3>2. PageTypeOK
      BY PageFacts
    <3>. QED  BY <1>1, <3>1, <3>2 DEF PageTypeOK
  <2>2. OneAwaited'
    BY <1>1, PageFacts DEF OneAwaited, busy
  <2>3. PromptAgrees'
    BY <1>1 DEF PromptAgrees
  <2>. QED  BY <2>1, <2>2, <2>3
<1>3. PostedBound'
  <2>1. AttemptsLeft' = AttemptsLeft /\ CommandLeft' = CommandLeft
    BY <1>1 DEF AttemptsLeft, CommandLeft, busy
  <2>2. RoundsLeft(commands)' = RoundsLeft(commands + 1)
    BY <1>1 DEF RoundsLeft
  <2>. QED  BY <1>1, <2>1, <2>2, PageFacts, LeftFacts DEF PostedBound
<1>. QED  BY <1>1, <1>2, <1>3, QuietInv DEF PageMoves

(* A command that is given, in each of its three cases. *)
LEMMA BeginInv ==
  ASSUME IInv, NEW action \in {"execute", "reset"}, Begin(action)
  PROVE  IInv'
<1>1. /\ ~busy /\ commands < MaxCommands /\ commands' = commands + 1
      /\ UNCHANGED <<outbox, delivered, workerVars, script, ready, prompt, cleared>>
      /\ action # "none" /\ action \in Actions /\ "load" \in Actions
  BY DEF Begin, Actions
<1>2. /\ PageTypeOK /\ OneAwaited /\ PromptAgrees /\ PostedBound
      /\ MaxRequests \in Nat /\ MaxCommands \in Nat /\ Retries \in Nat
      /\ posted \in 0 .. MaxRequests
      /\ loading \in [on : BOOLEAN, attempt : 0 .. Retries, id : 0 .. MaxRequests]
      /\ command \in [action : {"none", "execute", "reset"}, id : 0 .. MaxRequests]
      /\ commands \in 0 .. MaxCommands
  BY PageFacts
<1>3. /\ AttemptsLeft \in Nat /\ CommandLeft \in {0, 1}
      /\ RoundsLeft(commands)' \in Nat
      /\ RoundsLeft(commands) = RoundsLeft(commands)' + Retries + 2
  <2>1. RoundsLeft(commands)' = RoundsLeft(commands + 1)
    BY <1>1 DEF RoundsLeft
  <2>. QED  BY <1>1, <1>2, <2>1, LeftFacts
<1>4. command.id = 0
  BY <1>1, <1>2 DEF OneAwaited
<1>5. posted < MaxRequests /\ posted + AttemptsLeft + RoundsLeft(commands)' + Retries + 2 <= MaxRequests
  BY <1>2, <1>3 DEF PostedBound
<1>6. CASE /\ ready
           /\ Post(action)
           /\ command' = [action |-> action, id |-> posted']
           /\ UNCHANGED loading
  <2>1. loading = NoLoad
    BY <1>2, <1>6 DEF OneAwaited
  <2>2. ~loading'.on /\ loading'.id = 0 /\ loading'.attempt = 0 /\ loading' = NoLoad
    BY <1>6, <2>1 DEF NoLoad
  <2>3. /\ command'.action = action /\ command'.id = posted + 1 /\ posted' = posted + 1
        /\ posted + 1 \in 1 .. MaxRequests
    BY <1>2, <1>5, <1>6 DEF Post
  <2>4. PageTypeOK'
    BY <1>1, <1>2, <1>6, <2>3 DEF PageTypeOK
  <2>5. OneAwaited' /\ PromptAgrees'
    BY <1>1, <1>6, <2>2, <2>3 DEF OneAwaited, PromptAgrees, busy
  <2>6. PostedBound'
    <3>1. AttemptsLeft' = 0 /\ CommandLeft' = 0
      BY <1>2, <2>2, <2>3 DEF AttemptsLeft, CommandLeft
    <3>. QED  BY <1>2, <1>3, <1>5, <2>3, <3>1 DEF PostedBound
  <2>7. Awaited = {} /\ Awaited' = {posted + 1}
    BY <1>2, <1>4, <2>1, <2>2, <2>3 DEF Awaited, NoLoad
  <2>8. PageMoves
    BY <1>1, <2>4, <2>5, <2>6 DEF PageMoves
  <2>. QED  BY <1>1, <1>5, <1>6, <2>2, <2>7, <2>8, PostInv
<1>7. CASE /\ ~ready /\ loading.on
           /\ command' = [action |-> action, id |-> 0]
           /\ UNCHANGED <<inbox, posted, loading>>
  <2>1. command'.action = action /\ command'.id = 0
    BY <1>7
  <2>2. PageTypeOK'
    BY <1>1, <1>2, <1>7 DEF PageTypeOK
  <2>3. OneAwaited' /\ PromptAgrees'
    BY <1>1, <1>2, <1>7, <2>1 DEF OneAwaited, PromptAgrees, busy
  <2>4. PostedBound'
    <3>1. AttemptsLeft' = AttemptsLeft /\ CommandLeft' \in {0, 1}
      BY <1>7 DEF AttemptsLeft, CommandLeft
    <3>. QED  BY <1>2, <1>3, <1>5, <1>7, <3>1 DEF PostedBound
  <2>5. PageMoves
    BY <1>1, <2>2, <2>3, <2>4 DEF PageMoves
  <2>. QED  BY <1>1, <1>4, <1>7, <2>1, <2>5, QuietInv
<1>8. CASE /\ ~ready /\ ~loading.on
           /\ command' = [action |-> action, id |-> 0]
           /\ Post("load")
           /\ loading' = [on |-> TRUE, attempt |-> 0, id |-> posted']
  <2>1. loading.id = 0
    BY <1>2, <1>8 DEF OneAwaited, NoLoad
  <2>2. command'.action = action /\ command'.id = 0
    BY <1>8
  <2>3. /\ loading'.on /\ loading'.attempt = 0 /\ loading'.id = posted + 1
        /\ posted' = posted + 1 /\ posted + 1 \in 1 .. MaxRequests
    BY <1>2, <1>5, <1>8 DEF Post
  <2>4. PageTypeOK'
    BY <1>1, <1>2, <1>8, <2>3 DEF PageTypeOK
  <2>5. OneAwaited' /\ PromptAgrees'
    BY <1>1, <1>8, <2>2, <2>3 DEF OneAwaited, PromptAgrees, busy
  <2>6. PostedBound'
    <3>1. AttemptsLeft' = Retries /\ CommandLeft' \in {0, 1}
      BY <1>2, <2>3 DEF AttemptsLeft, CommandLeft
    <3>. QED  BY <1>2, <1>3, <1>5, <2>3, <3>1 DEF PostedBound
  <2>7. Awaited = {} /\ Awaited' = {posted + 1}
    BY <1>2, <1>4, <2>1, <2>2, <2>3 DEF Awaited
  <2>8. PageMoves
    BY <1>1, <2>4, <2>5, <2>6 DEF PageMoves
  <2>. QED  BY <1>1, <1>5, <1>8, <2>3, <2>7, <2>8, PostInv
<1>. QED  BY <1>6, <1>7, <1>8 DEF Begin

(* The next attempt, after its delay. *)
LEMMA RetryNowInv ==
  ASSUME IInv, RetryNow
  PROVE  IInv'
<1>1. /\ loading.on /\ loading.id = 0
      /\ Post("load") /\ "load" \in Actions
      /\ loading' = [loading EXCEPT !.id = posted']
      /\ UNCHANGED <<outbox, delivered, workerVars, script, ready, command, prompt, cleared, commands>>
  BY DEF RetryNow, Actions
<1>2. /\ PageTypeOK /\ OneAwaited /\ PromptAgrees /\ PostedBound
      /\ MaxRequests \in Nat /\ MaxCommands \in Nat /\ Retries \in Nat
      /\ posted \in 0 .. MaxRequests
      /\ loading \in [on : BOOLEAN, attempt : 0 .. Retries, id : 0 .. MaxRequests]
      /\ command \in [action : {"none", "execute", "reset"}, id : 0 .. MaxRequests]
      /\ commands \in 0 .. MaxCommands
  BY PageFacts
<1>3. AttemptsLeft \in Nat /\ CommandLeft \in {0, 1} /\ RoundsLeft(commands) \in Nat
  BY <1>2, LeftFacts
<1>4. ~ready /\ command.id = 0
  BY <1>1, <1>2 DEF OneAwaited
<1>5. AttemptsLeft = Retries - loading.attempt + 1
  BY <1>1 DEF AttemptsLeft
<1>6. posted < MaxRequests
  BY <1>2, <1>3, <1>5 DEF PostedBound
<1>7. /\ posted' = posted + 1 /\ posted + 1 \in 1 .. MaxRequests
      /\ loading'.on /\ loading'.id = posted + 1 /\ loading'.attempt = loading.attempt
      /\ loading' \in [on : BOOLEAN, attempt : 0 .. Retries, id : 0 .. MaxRequests]
  BY <1>1, <1>2, <1>6 DEF Post
<1>8. PageTypeOK'
  BY <1>1, <1>2, <1>7 DEF PageTypeOK
<1>9. OneAwaited' /\ PromptAgrees'
  BY <1>1, <1>2, <1>4, <1>7 DEF OneAwaited, PromptAgrees, busy
<1>10. PostedBound'
  <2>1. AttemptsLeft' = Retries - loading.attempt
    BY <1>2, <1>7 DEF AttemptsLeft
  <2>2. CommandLeft' = CommandLeft /\ RoundsLeft(commands)' = RoundsLeft(commands)
    BY <1>1 DEF CommandLeft, RoundsLeft, busy
  <2>. QED  BY <1>2, <1>3, <1>5, <1>7, <2>1, <2>2 DEF PostedBound
<1>11. Awaited = {} /\ Awaited' = {posted + 1}
  BY <1>1, <1>2, <1>4, <1>7 DEF Awaited
<1>12. PageMoves
  BY <1>1, <1>8, <1>9, <1>10 DEF PageMoves
<1>. QED  BY <1>1, <1>6, <1>7, <1>11, <1>12, PostInv

(* An attempt that failed leaves the page waiting for its delay, or idle. *)
LEMMA AttemptFailsFacts ==
  ASSUME IInv, loading.on, loading.id # 0, NEW w, AttemptFails(w),
         w \in {command, NoCommand}, commands' = commands, posted' = posted
  PROVE  /\ loading' \in [on : BOOLEAN, attempt : 0 .. Retries, id : 0 .. MaxRequests]
         /\ command' \in [action : {"none", "execute", "reset"}, id : 0 .. MaxRequests]
         /\ loading'.id = 0 /\ command'.id = 0 /\ ~ready
         /\ ~loading'.on => loading' = NoLoad /\ command' = NoCommand
         /\ PostedBound'
<1>1. /\ PageTypeOK /\ OneAwaited /\ PostedBound
      /\ MaxRequests \in Nat /\ MaxCommands \in Nat /\ Retries \in Nat
      /\ posted \in 0 .. MaxRequests
      /\ loading \in [on : BOOLEAN, attempt : 0 .. Retries, id : 0 .. MaxRequests]
      /\ command \in [action : {"none", "execute", "reset"}, id : 0 .. MaxRequests]
  BY PageFacts
<1>2. AttemptsLeft \in Nat /\ CommandLeft \in {0, 1} /\ RoundsLeft(commands) \in Nat
  BY <1>1, LeftFacts
<1>3. ~ready /\ command.id = 0
  BY <1>1 DEF OneAwaited
<1>4. /\ NoCommand.id = 0 /\ NoCommand.action = "none"
      /\ NoCommand \in [action : {"none", "execute", "reset"}, id : 0 .. MaxRequests]
      /\ NoLoad.id = 0 /\ ~NoLoad.on
      /\ NoLoad \in [on : BOOLEAN, attempt : 0 .. Retries, id : 0 .. MaxRequests]
  BY <1>1 DEF NoCommand, NoLoad
<1>5. RoundsLeft(commands)' = RoundsLeft(commands)
  BY DEF RoundsLeft
<1>6. AttemptsLeft = Retries - loading.attempt
  BY <1>1 DEF AttemptsLeft
<1>7. CASE loading.attempt < Retries
  <2>1. loading' = [loading EXCEPT !.attempt = @ + 1, !.id = 0] /\ command' = w
    BY <1>7 DEF AttemptFails
  <2>2. /\ loading'.on /\ loading'.id = 0 /\ loading'.attempt = loading.attempt + 1
        /\ loading' \in [on : BOOLEAN, attempt : 0 .. Retries, id : 0 .. MaxRequests]
    <3>1. loading.attempt + 1 \in 0 .. Retries /\ 0 \in 0 .. MaxRequests
      BY <1>1, <1>7
    <3>. QED  BY <1>1, <2>1, <3>1
  <2>3. /\ command'.id = 0
        /\ command' \in [action : {"none", "execute", "reset"}, id : 0 .. MaxRequests]
        /\ command'.action = command.action \/ command'.action = "none"
    BY <1>1, <1>3, <1>4, <2>1
  <2>4. AttemptsLeft' = Retries - (loading.attempt + 1) + 1
    BY <2>2 DEF AttemptsLeft
  <2>5. CommandLeft' \in {0, 1} /\ CommandLeft' <= CommandLeft
    BY <1>3, <2>3 DEF CommandLeft, busy
  <2>6. PostedBound'
    BY <1>1, <1>2, <1>5, <1>6, <2>4, <2>5 DEF PostedBound
  <2>. QED  BY <1>3, <2>2, <2>3, <2>6
<1>8. CASE ~(loading.attempt < Retries)
  <2>1. loading' = NoLoad /\ command' = NoCommand
    BY <1>8 DEF AttemptFails
  <2>2. AttemptsLeft' = 0 /\ CommandLeft' = 0
    BY <1>4, <2>1 DEF AttemptsLeft, CommandLeft, busy
  <2>3. PostedBound'
    BY <1>1, <1>2, <1>5, <2>2 DEF PostedBound
  <2>. QED  BY <1>3, <1>4, <2>1, <2>3
<1>. QED  BY <1>7, <1>8

(* The answer to a load. *)
LEMMA LoadAnsweredInv ==
  ASSUME IInv, LoadAnswered
  PROVE  IInv'
<1>1. PICK r \in Response : r = Head(outbox)
  BY Received DEF LoadAnswered
<1>2. /\ Receive /\ UNCHANGED <<workerVars, script, commands>>
      /\ loading.on /\ loading.id = r.id
  BY <1>1 DEF LoadAnswered
<1>3. r.id \in 1 .. posted /\ script = "running" /\ Awaited = {r.id} /\ AnswerCurrent(r)
  BY <1>1, <1>2, Received
<1>4. /\ PageTypeOK /\ OneAwaited /\ PromptAgrees /\ PostedBound
      /\ MaxRequests \in Nat /\ MaxCommands \in Nat /\ Retries \in Nat
      /\ posted \in 0 .. MaxRequests
      /\ loading \in [on : BOOLEAN, attempt : 0 .. Retries, id : 0 .. MaxRequests]
      /\ command \in [action : {"none", "execute", "reset"}, id : 0 .. MaxRequests]
      /\ commands \in 0 .. MaxCommands
  BY PageFacts
<1>5. AttemptsLeft \in Nat /\ CommandLeft \in {0, 1} /\ RoundsLeft(commands) \in Nat
  BY <1>4, LeftFacts
<1>6. loading.id # 0 /\ ~ready /\ command.id = 0 /\ session' = session
  BY <1>2, <1>3, <1>4 DEF OneAwaited, workerVars
<1>7. /\ ~NoLoad.on /\ NoLoad.id = 0
      /\ NoLoad \in [on : BOOLEAN, attempt : 0 .. Retries, id : 0 .. MaxRequests]
  BY <1>4 DEF NoLoad
<1>8. CASE /\ r.ok /\ ready' = TRUE /\ prompt' = r.cont /\ cleared' = FALSE /\ loading' = NoLoad
           /\ busy /\ Post(command.action) /\ command' = [command EXCEPT !.id = posted']
  <2>1. Loaded
    BY <1>2, <1>3, <1>8 DEF AnswerCurrent
  <2>2. CommandLeft = 1
    BY <1>6, <1>8 DEF CommandLeft
  <2>3. posted < MaxRequests
    BY <1>4, <1>5, <2>2 DEF PostedBound
  <2>4. /\ posted' = posted + 1 /\ posted + 1 \in 1 .. MaxRequests
        /\ command'.id = posted + 1 /\ command'.action = command.action
        /\ command' \in [action : {"none", "execute", "reset"}, id : 0 .. MaxRequests]
    BY <1>4, <1>8, <2>3 DEF Post
  <2>5. command.action \in {"execute", "reset"} /\ command.action \in Actions
    BY <1>4, <1>8 DEF busy, Actions
  <2>6. PageTypeOK'
    BY <1>1, <1>2, <1>4, <1>7, <1>8, <2>4 DEF PageTypeOK, Response
  <2>7. OneAwaited' /\ PromptAgrees'
    BY <1>7, <1>8, <2>4, <2>5 DEF OneAwaited, PromptAgrees, busy
  <2>8. PostedBound'
    <3>1. AttemptsLeft' = 0 /\ CommandLeft' = 0 /\ RoundsLeft(commands)' = RoundsLeft(commands)
      BY <1>2, <1>4, <1>7, <1>8, <2>4 DEF AttemptsLeft, CommandLeft, RoundsLeft
    <3>. QED  BY <1>4, <1>5, <2>2, <2>4, <3>1 DEF PostedBound
  <2>9. Awaited' = {posted + 1} /\ loading'.id = 0
    BY <1>4, <1>7, <1>8, <2>4 DEF Awaited
  <2>10. PageMoves
    BY <1>2, <1>3, <2>1, <2>6, <2>7, <2>8 DEF PageMoves
  <2>. QED  BY <1>2, <1>8, <2>3, <2>5, <2>9, <2>10, PostInv
<1>9. CASE /\ r.ok /\ ready' = TRUE /\ prompt' = r.cont /\ cleared' = FALSE /\ loading' = NoLoad
           /\ ~busy /\ UNCHANGED <<inbox, posted, command>>
  <2>1. Loaded /\ (r.cont <=> session.cont)
    BY <1>2, <1>3, <1>9 DEF AnswerCurrent
  <2>2. PageTypeOK'
    BY <1>1, <1>2, <1>4, <1>7, <1>9 DEF PageTypeOK, Response
  <2>3. OneAwaited' /\ PromptAgrees'
    BY <1>6, <1>7, <1>9, <2>1 DEF OneAwaited, PromptAgrees, busy
  <2>4. PostedBound'
    <3>1. /\ AttemptsLeft' = 0 /\ CommandLeft' = CommandLeft
          /\ RoundsLeft(commands)' = RoundsLeft(commands)
      BY <1>2, <1>7, <1>9 DEF AttemptsLeft, CommandLeft, RoundsLeft, busy
    <3>. QED  BY <1>4, <1>5, <1>9, <3>1 DEF PostedBound
  <2>5. Awaited' = {}
    BY <1>6, <1>7, <1>9 DEF Awaited
  <2>6. PageMoves
    BY <1>2, <1>3, <2>1, <2>2, <2>3, <2>4 DEF PageMoves
  <2>. QED  BY <1>2, <1>9, <2>5, <2>6, AnsweredInv
<1>10. CASE ~r.ok /\ AttemptFails(command) /\ UNCHANGED <<inbox, posted, ready, prompt, cleared>>
  <2>1. /\ loading' \in [on : BOOLEAN, attempt : 0 .. Retries, id : 0 .. MaxRequests]
        /\ command' \in [action : {"none", "execute", "reset"}, id : 0 .. MaxRequests]
        /\ loading'.id = 0 /\ command'.id = 0 /\ ~ready
        /\ ~loading'.on => loading' = NoLoad /\ command' = NoCommand
        /\ PostedBound'
    BY <1>2, <1>6, <1>10, AttemptFailsFacts
  <2>2. PageTypeOK'
    BY <1>2, <1>4, <1>10, <2>1 DEF PageTypeOK
  <2>3. OneAwaited' /\ PromptAgrees'
    BY <1>10, <2>1 DEF OneAwaited, PromptAgrees, busy, NoCommand
  <2>4. Awaited' = {}
    BY <2>1 DEF Awaited
  <2>5. PageMoves
    BY <1>2, <1>10, <2>1, <2>2, <2>3 DEF PageMoves
  <2>. QED  BY <1>2, <1>10, <2>4, <2>5, AnsweredInv
<1>. QED  BY <1>1, <1>8, <1>9, <1>10 DEF LoadAnswered

(* The answer to a command. *)
LEMMA CommandAnsweredInv ==
  ASSUME IInv, CommandAnswered
  PROVE  IInv'
<1>1. PICK r \in Response : r = Head(outbox)
  BY Received DEF CommandAnswered
<1>2. /\ Receive /\ UNCHANGED <<inbox, posted, workerVars, script, ready, loading, commands>>
      /\ busy /\ command.id = r.id
      /\ prompt' = r.cont /\ cleared' = FALSE /\ command' = NoCommand
  BY <1>1 DEF CommandAnswered, PromptAfter
<1>3. r.id \in 1 .. posted /\ script = "running" /\ Awaited = {r.id} /\ AnswerCurrent(r)
  BY <1>1, <1>2, Received
<1>4. /\ PageTypeOK /\ OneAwaited /\ PostedBound
      /\ MaxRequests \in Nat /\ posted \in 0 .. MaxRequests
  BY PageFacts
<1>5. AttemptsLeft \in Nat /\ CommandLeft \in {0, 1} /\ RoundsLeft(commands) \in Nat
  BY <1>4, LeftFacts
<1>6. ready /\ loading.id = 0 /\ session' = session /\ loading = NoLoad
  BY <1>2, <1>3, <1>4 DEF OneAwaited, workerVars, NoLoad
<1>7. /\ NoCommand.id = 0 /\ NoCommand.action = "none"
      /\ NoCommand \in [action : {"none", "execute", "reset"}, id : 0 .. MaxRequests]
  BY <1>4 DEF NoCommand
<1>8. PageTypeOK'
  BY <1>1, <1>2, <1>4, <1>7 DEF PageTypeOK, Response
<1>9. OneAwaited' /\ PromptAgrees'
  <2>1. session.broken \/ (r.cont <=> session.cont)
    BY <1>2, <1>3 DEF AnswerCurrent
  <2>. QED  BY <1>2, <1>4, <1>6, <1>7, <2>1 DEF OneAwaited, PromptAgrees, busy
<1>10. PostedBound'
  <2>1. /\ AttemptsLeft' = AttemptsLeft /\ CommandLeft' = 0
        /\ RoundsLeft(commands)' = RoundsLeft(commands)
    BY <1>2, <1>7 DEF AttemptsLeft, CommandLeft, RoundsLeft, busy
  <2>. QED  BY <1>2, <1>4, <1>5, <2>1 DEF PostedBound
<1>11. Awaited' = {}
  BY <1>2, <1>6, <1>7 DEF Awaited
<1>12. PageMoves
  BY <1>2, <1>8, <1>9, <1>10 DEF PageMoves
<1>. QED  BY <1>2, <1>11, <1>12, AnsweredInv

(* Whatever the page waited for when the worker failed, it waits for no       *)
(* request any more.                                                          *)
LEMMA RejectAllFacts ==
  ASSUME IInv, RejectAll, commands' = commands, posted' = posted,
         script' \in {"loading", "running", "failed"}
  PROVE  /\ PageTypeOK' /\ OneAwaited' /\ PromptAgrees' /\ PostedBound'
         /\ ready' = FALSE /\ Awaited' = {}
<1>. DEFINE sent == busy /\ command.id # 0
            w == IF sent THEN NoCommand ELSE command
<1>1. /\ PageTypeOK /\ OneAwaited /\ PostedBound
      /\ MaxRequests \in Nat /\ MaxCommands \in Nat /\ Retries \in Nat
      /\ posted \in 0 .. MaxRequests
      /\ loading \in [on : BOOLEAN, attempt : 0 .. Retries, id : 0 .. MaxRequests]
      /\ command \in [action : {"none", "execute", "reset"}, id : 0 .. MaxRequests]
      /\ commands \in 0 .. MaxCommands /\ prompt \in BOOLEAN /\ cleared \in BOOLEAN
  BY PageFacts DEF PageTypeOK
<1>2. AttemptsLeft \in Nat /\ CommandLeft \in {0, 1} /\ RoundsLeft(commands) \in Nat
  BY <1>1, LeftFacts
<1>3. /\ ready' = FALSE /\ prompt' = (IF sent THEN FALSE ELSE prompt)
      /\ cleared' = (cleared /\ ~sent)
      /\ \/ loading.on /\ loading.id # 0 /\ AttemptFails(w)
         \/ ~(loading.on /\ loading.id # 0) /\ command' = w /\ loading' = loading
  BY DEF RejectAll
<1>4. prompt' \in BOOLEAN /\ cleared' \in BOOLEAN
  BY <1>1, <1>3
<1>5. /\ NoCommand.id = 0 /\ NoCommand.action = "none"
      /\ NoCommand \in [action : {"none", "execute", "reset"}, id : 0 .. MaxRequests]
  BY <1>1 DEF NoCommand
<1>6. /\ w \in {command, NoCommand} /\ w.id = 0
      /\ w \in [action : {"none", "execute", "reset"}, id : 0 .. MaxRequests]
      /\ w = NoCommand \/ w = command
  <2>1. CASE sent
    BY <1>5, <2>1
  <2>2. CASE ~sent
    <3>1. w = command
      BY <2>2
    <3>2. command.id = 0
      BY <1>1, <2>2 DEF OneAwaited
    <3>. QED  BY <1>1, <3>1, <3>2
  <2>. QED  BY <2>1, <2>2
<1>. HIDE DEF sent, w
<1>7. /\ loading' \in [on : BOOLEAN, attempt : 0 .. Retries, id : 0 .. MaxRequests]
      /\ command' \in [action : {"none", "execute", "reset"}, id : 0 .. MaxRequests]
      /\ loading'.id = 0 /\ command'.id = 0
      /\ ~loading'.on => loading' = NoLoad /\ command'.action = "none"
      /\ PostedBound'
  <2>1. CASE loading.on /\ loading.id # 0 /\ AttemptFails(w)
    <3>1. /\ loading' \in [on : BOOLEAN, attempt : 0 .. Retries, id : 0 .. MaxRequests]
          /\ command' \in [action : {"none", "execute", "reset"}, id : 0 .. MaxRequests]
          /\ loading'.id = 0 /\ command'.id = 0
          /\ ~loading'.on => loading' = NoLoad /\ command' = NoCommand
          /\ PostedBound'
      BY <1>6, <2>1, AttemptFailsFacts
    <3>. QED  BY <1>5, <3>1
  <2>2. CASE ~(loading.on /\ loading.id # 0) /\ command' = w /\ loading' = loading
    <3>1. loading.id = 0 /\ (~loading.on => loading = NoLoad)
      BY <1>1, <2>2 DEF OneAwaited, NoLoad
    <3>2. ~loading.on => w.action = "none"
      BY <1>1, <1>5, <1>6 DEF OneAwaited, busy
    <3>3. /\ AttemptsLeft' = AttemptsLeft /\ RoundsLeft(commands)' = RoundsLeft(commands)
          /\ CommandLeft' \in {0, 1} /\ CommandLeft' <= CommandLeft
      BY <1>5, <1>6, <2>2 DEF AttemptsLeft, RoundsLeft, CommandLeft, busy
    <3>4. PostedBound'
      BY <1>1, <1>2, <3>3 DEF PostedBound
    <3>. QED  BY <1>1, <1>6, <2>2, <3>1, <3>2, <3>4
  <2>. QED  BY <1>3, <2>1, <2>2
<1>8. PageTypeOK'
  BY <1>1, <1>3, <1>4, <1>7 DEF PageTypeOK
<1>9. OneAwaited' /\ PromptAgrees' /\ Awaited' = {}
  BY <1>3, <1>7 DEF OneAwaited, PromptAgrees, busy, Awaited
<1>. QED  BY <1>3, <1>7, <1>8, <1>9

(* The worker's script cannot be loaded. *)
LEMMA ScriptFailsInv ==
  ASSUME IInv, ScriptFails
  PROVE  IInv'
<1>1. /\ UNCHANGED <<inbox, posted, outbox, delivered, workerVars, commands>>
      /\ UNCHANGED <<runtime, starting, refetching, packLoaded, library, session>>
      /\ script = "loading" /\ script' = "failed"
  BY DEF ScriptFails, vars, workerVars
<1>2. /\ PageTypeOK' /\ OneAwaited' /\ PromptAgrees' /\ PostedBound'
      /\ ready' = FALSE /\ Awaited' = {}
  BY <1>1, RejectAllFacts DEF ScriptFails
<1>3. PageMoves
  BY <1>1, <1>2 DEF PageMoves
<1>4. WorkerInv'
  BY <1>1, ClientInv DEF IInv
<1>5. /\ refetching' = {} /\ SessionInv'
      /\ (script # "running" => Untouched)'
  BY <1>1, <1>3, MovesKeep
<1>6. WorkInv'
  <2>1. InWork' = InWork
    BY <1>1 DEF InWork, SeqIds
  <2>. QED  BY <1>1, <1>2, <2>1 DEF IInv, PageInv, WorkInv
<1>7. (\A i \in DOMAIN outbox : AnswerCurrent(outbox[i]))'
  <2>1. outbox' = <<>>
    BY <1>1 DEF IInv, PageInv, Untouched
  <2>2. DOMAIN outbox' = {}
    BY <2>1
  <2>. QED  BY <2>2
<1>8. (\A i \in DOMAIN inbox : inbox[i].id = loading.id => inbox[i].action = "load")'
  <2>1. inbox' \in Seq(Message) /\ loading'.id = 0
    BY <1>2, <1>4 DEF WorkerInv, WorkerTypeOK, Message, Awaited
  <2>2. \A i \in DOMAIN inbox' : inbox'[i] \in Message
    BY <2>1
  <2>3. \A i \in DOMAIN inbox' : inbox'[i].id # 0
    BY <2>2, RequestsAssumption DEF Message, Ids
  <2>. QED  BY <2>1, <2>3
<1>. QED  BY <1>2, <1>4, <1>5, <1>6, <1>7, <1>8 DEF IInv, PageInv

(* A response that cannot be decoded. *)
LEMMA BadResponseInv ==
  ASSUME IInv, BadResponse
  PROVE  IInv'
<1>1. /\ Receive /\ RejectAll
      /\ UNCHANGED <<inbox, posted, workerVars, script, commands>>
  BY DEF BadResponse
<1>2. /\ PageTypeOK' /\ OneAwaited' /\ PromptAgrees' /\ PostedBound'
      /\ ready' = FALSE /\ Awaited' = {}
  BY <1>1, PageFacts, RejectAllFacts
<1>3. PageMoves
  BY <1>1, <1>2 DEF PageMoves
<1>. QED  BY <1>1, <1>2, <1>3, AnsweredInv

(* The page has opened and posted its first load. *)
LEMMA InitInv == Init => IInv
<1>. SUFFICES ASSUME Init PROVE IInv
  OBVIOUS
<1>1. /\ MaxRequests \in Nat /\ MaxCommands \in Nat /\ Retries \in Nat
      /\ 1 + Retries + RoundsLeft(0) <= MaxRequests
      /\ RoundsLeft(0) \in Nat
  <2>1. /\ MaxRequests \in Nat /\ MaxCommands \in Nat /\ Retries \in Nat
        /\ MaxRequests >= (Retries + 1) * (MaxCommands + 1) + MaxCommands
    BY RequestsAssumption, PageAssumption
  <2>2. PICK p \in Nat : p = Retries * MaxCommands
    BY <2>1
  <2>3. /\ (Retries + 1) * (MaxCommands + 1) = p + Retries + MaxCommands + 1
        /\ (Retries + 2) * MaxCommands = p + 2 * MaxCommands
    BY <2>1, <2>2
  <2>4. RoundsLeft(0) = p + 2 * MaxCommands
    <3>1. MaxCommands - 0 = MaxCommands
      BY <2>1
    <3>. QED  BY <2>3, <3>1 DEF RoundsLeft
  <2>. QED  BY <2>1, <2>2, <2>3, <2>4
<1>2. /\ inbox = <<[id |-> 1, action |-> "load"]>> /\ posted = 1
      /\ script = "loading" /\ ready = FALSE
      /\ loading = [on |-> TRUE, attempt |-> 0, id |-> 1]
      /\ command = NoCommand /\ prompt = FALSE /\ cleared = FALSE /\ commands = 0
      /\ outbox = <<>> /\ delivered = {}
      /\ runtime = FALSE /\ starting = NoStart /\ refetching = {}
      /\ packLoaded = FALSE /\ library = FALSE /\ session = NoSession
  BY DEF Init, WorkerInit
<1>3. /\ DOMAIN inbox = {1} /\ inbox[1].id = 1 /\ inbox[1].action = "load"
      /\ DOMAIN outbox = {} /\ starting.ids = {} /\ starting.stage = "none"
      /\ 1 \in Ids
      /\ command.action = "none" /\ command.id = 0
      /\ loading.on /\ loading.attempt = 0 /\ loading.id = 1
  BY <1>1, <1>2 DEF NoStart, Ids, NoCommand
<1>4. SeqIds(inbox) = {1} /\ DistinctIds(inbox) /\ SeqIds(outbox) = {} /\ DistinctIds(outbox)
  BY <1>3 DEF SeqIds, DistinctIds
<1>5. WorkerInv
  <2>1. inbox \in Seq([id : Ids, action : Actions]) /\ outbox \in Seq(Response)
    BY <1>2, <1>3 DEF Actions
  <2>2. starting \in [stage : {"none", "import", "library"}, ids : SUBSET Ids]
    BY <1>2 DEF NoStart
  <2>3. session \in Session
    BY <1>2 DEF NoSession, Session
  <2>4. posted \in 0 .. MaxRequests
    BY <1>1, <1>2
  <2>5. WorkerTypeOK
    BY <1>2, <2>1, <2>2, <2>3, <2>4 DEF WorkerTypeOK, Session
  <2>6. NothingHalfLoaded /\ StartInv
    BY <1>2, <1>3 DEF NothingHalfLoaded, StartInv, NoSession
  <2>7. OnePlace
    BY <1>2, <1>3, <1>4 DEF OnePlace, Apart
  <2>. QED  BY <2>5, <2>6, <2>7 DEF WorkerInv
<1>6. PageTypeOK
  <2>1. /\ 0 \in 0 .. Retries /\ 0 \in 0 .. MaxRequests /\ 1 \in 0 .. MaxRequests
        /\ 0 \in 0 .. MaxCommands
    BY <1>1
  <2>2. /\ loading \in [on : BOOLEAN, attempt : 0 .. Retries, id : 0 .. MaxRequests]
        /\ command \in [action : {"none", "execute", "reset"}, id : 0 .. MaxRequests]
    BY <1>2, <2>1 DEF NoCommand
  <2>. QED  BY <1>2, <2>1, <2>2 DEF PageTypeOK
<1>7. WorkInv
  <2>1. Awaited = {1} /\ InWork = {1}
    BY <1>2, <1>3, <1>4 DEF Awaited, InWork
  <2>2. 1 .. posted = {1}
    BY <1>2
  <2>. QED  BY <1>2, <2>1, <2>2 DEF WorkInv
<1>8. OneAwaited /\ PromptAgrees
  BY <1>2, <1>3 DEF OneAwaited, PromptAgrees, busy
<1>9. SessionInv /\ Untouched
  BY <1>2, <1>3 DEF SessionInv, Untouched
<1>10. PostedBound
  <2>1. AttemptsLeft = Retries /\ CommandLeft = 0
    BY <1>1, <1>3 DEF AttemptsLeft, CommandLeft, busy
  <2>. QED  BY <1>1, <1>2, <2>1 DEF PostedBound
<1>11. /\ \A i \in DOMAIN inbox : inbox[i].id = loading.id => inbox[i].action = "load"
       /\ \A i \in DOMAIN outbox : AnswerCurrent(outbox[i])
  BY <1>3
<1>. QED  BY <1>2, <1>5, <1>6, <1>7, <1>8, <1>9, <1>10, <1>11 DEF IInv, PageInv

(* Every step of the worker, the page and its user keeps the invariant. *)
LEMMA NextInv == IInv /\ [Next]_allVars => IInv'
<1>. SUFFICES ASSUME IInv, [Next]_allVars PROVE IInv'
  OBVIOUS
<1>1. CASE ScriptLoads
  BY <1>1, ScriptLoadsInv
<1>2. CASE WorkerRuns
  BY <1>2, WorkerRunsInv
<1>3. CASE PageStep
  BY <1>3, LoadAnsweredInv, CommandAnsweredInv, RetryNowInv, ScriptFailsInv, BadResponseInv
     DEF PageStep
<1>4. CASE User
  BY <1>4, BeginInv, ClearInv DEF User, Submit, ResetCommand
<1>5. CASE UNCHANGED allVars
  <2>1. /\ UNCHANGED <<inbox, posted, outbox, delivered, workerVars>>
        /\ UNCHANGED <<script, ready, loading, command, prompt, cleared, commands, session>>
    BY <1>5 DEF allVars, vars, pageVars, workerVars
  <2>2. PageTypeOK' /\ OneAwaited' /\ PromptAgrees' /\ PostedBound'
    BY <2>1, PageFacts DEF PageTypeOK, OneAwaited, PromptAgrees, PostedBound, busy, AttemptsLeft,
       CommandLeft, RoundsLeft
  <2>. QED  BY <2>1, <2>2, QuietInv DEF PageMoves
<1>. QED  BY <1>1, <1>2, <1>3, <1>4, <1>5 DEF Next

(* The page and its worker keep the inductive invariant. *)
THEOREM Invariance == Spec => []IInv
BY InitInv, NextInv, PTL DEF Spec

(* What the page believes: a runtime that it counts as ready is loaded, with  *)
(* its library and a session that can import from it (playground.astro        *)
(* ensureRuntimeLoaded).                                                      *)
THEOREM PageIsConsistent == Spec => []PageConsistent
<1>1. IInv => PageConsistent
  <2>. SUFFICES ASSUME IInv PROVE PageConsistent
    OBVIOUS
  <2>1. TypeOK
    BY DEF IInv, PageInv, PageTypeOK, WorkerInv, TypeOK
  <2>2. ReadyMeansLoaded
    BY DEF IInv, PageInv, SessionInv, Loaded, ReadyMeansLoaded
  <2>. QED  BY <2>1, <2>2 DEF PageConsistent
<1>. QED  BY <1>1, Invariance, PTL

(* No request of this page is lost or answered twice, every answer is         *)
(* awaited, and what the page waits for is still to come                      *)
(* (playground.astro sendWorkerRequest, rejectAllWorkerRequests).             *)
THEOREM RequestsAreAnswered == Spec => []RequestsAnswered
<1>1. IInv => RequestsAnswered
  <2>. SUFFICES ASSUME IInv PROVE RequestsAnswered
    OBVIOUS
  <2>1. WorkerInv
    BY DEF IInv
  <2>2. AnsweredOnce
    BY <2>1, PlacesOfId DEF AnsweredOnce
  <2>3. NoneDropped
    <3>1. 1 .. posted \subseteq SeqIds(inbox) \cup SeqIds(outbox) \cup starting.ids
                                  \cup refetching \cup delivered
      BY DEF IInv, PageInv, WorkInv, InWork
    <3>2. \A id \in 1 .. posted : Places(id) = 1
      BY <2>1, <3>1, PlacesOfId
    <3>. QED  BY <3>2 DEF NoneDropped
  <2>4. AnswersAwaited
    <3>1. \A i \in DOMAIN outbox : outbox[i].id \in Awaited
      <4>1. CASE script = "failed"
        <5>1. outbox = <<>>
          BY <4>1 DEF IInv, PageInv, Untouched
        <5>2. DOMAIN outbox = {}
          BY <5>1
        <5>. QED  BY <5>2
      <4>2. CASE script # "failed"
        BY <4>2 DEF IInv, PageInv, WorkInv, InWork, SeqIds
      <4>. QED  BY <4>1, <4>2
    <3>2. Awaited \cap delivered = {}
      BY DEF IInv, PageInv, WorkInv
    <3>3. busy /\ command.id = 0 => loading.on
      BY DEF IInv, PageInv, OneAwaited
    <3>. QED  BY <3>1, <3>2, <3>3 DEF AnswersAwaited
  <2>. QED  BY <2>2, <2>3, <2>4 DEF RequestsAnswered, PageDropsNone
<1>. QED  BY <1>1, Invariance, PTL

(* The prompt that an idle page shows is the session's, unless it was cleared *)
(* (playground.astro applyContinuationPrompt).                                *)
THEOREM PromptIsCurrent == Spec => []PromptAgrees
<1>1. IInv => PromptAgrees
  BY DEF IInv, PageInv
<1>. QED  BY <1>1, Invariance, PTL

-----------------------------------------------------------------------------
(* The worker runtime: sequences of frames *)

(* A non-empty set of naturals has a least element, and Min returns it. *)
LEMMA MinOfNats ==
  ASSUME NEW S, S \subseteq Nat, S # {}
  PROVE  Min(S) \in S /\ \A y \in S : Min(S) <= y
<1>1. PICK x \in S : \A y \in S : ~ (<<y, x>> \in OpToRel(<, Nat))
  BY NatLessThanWellFounded, WFMin
<1>2. ASSUME NEW y \in S PROVE x <= y
  <2>1. x \in Nat /\ y \in Nat
    OBVIOUS
  <2>2. ~(y < x)
    BY <1>1, <2>1 DEF OpToRel
  <2>. QED  BY <2>1, <2>2
<1>. QED  BY <1>2 DEF Min

(* Max returns it.                                                          *)
LEMMA MaxOfPositions ==
  ASSUME NEW n \in Nat, NEW S, S \subseteq 1 .. n, S # {}
  PROVE  Max(S) \in S /\ \A y \in S : y <= Max(S)
<1>. DEFINE T == {n - x : x \in S}
<1>1. T \subseteq Nat /\ T # {}
  OBVIOUS
<1>2. Min(T) \in T /\ \A y \in T : Min(T) <= y
  BY <1>1, MinOfNats
<1>3. PICK x \in S : Min(T) = n - x
  BY <1>2
<1>4. ASSUME NEW y \in S PROVE y <= x
  <2>1. n - y \in T
    OBVIOUS
  <2>2. n - x <= n - y
    BY <2>1, <1>2, <1>3
  <2>3. x \in Int /\ y \in Int
    OBVIOUS
  <2>. QED  BY <2>2, <2>3
<1>. QED  BY <1>4 DEF Max

(* What truncating a stack to its first n elements leaves. *)
LEMMA PrefixProperties ==
  ASSUME NEW S, NEW s \in Seq(S), NEW n \in 0 .. Len(s)
  PROVE  /\ SubSeq(s, 1, n) \in Seq(S)
         /\ Len(SubSeq(s, 1, n)) = n
         /\ \A i \in 1 .. n : SubSeq(s, 1, n)[i] = s[i]
<1>1. n \in Int /\ \A i \in 1 .. n : s[i] \in S
  OBVIOUS
<1>2. /\ SubSeq(s, 1, n) \in Seq(S)
      /\ Len(SubSeq(s, 1, n)) = IF 1 <= n THEN n - 1 + 1 ELSE 0
      /\ \A i \in 1 .. n - 1 + 1 : SubSeq(s, 1, n)[i] = s[1 + i - 1]
  BY <1>1, SubSeqProperties
<1>3. n - 1 + 1 = n /\ \A i \in 1 .. n : 1 + i - 1 = i
  BY <1>1
<1>. QED  BY <1>2, <1>3

-----------------------------------------------------------------------------
(* The worker runtime: the inductive invariant *)

\* While a snippet runs: a lifecycle edge is still to come, the snippet's own
\* frame is on the bottom and belongs to the outermost run, the answer is
\* still open, and a deadline that was seen stays passed, which stops every
\* later instruction.  An error is in flight only while a snippet runs.
RunShape ==
  /\ ~Idle => /\ epoch < MaxEpoch
              /\ ~frames[1].nested
              /\ outcome = "none"
              /\ expired => late
  /\ exc => ~Idle

WasmInv == RuntimeConsistent /\ VmCurrent /\ DeadlineNotSwallowed /\ RunShape

-----------------------------------------------------------------------------
(* The worker runtime: frames *)

(* The innermost run begins at a frame of the stack; unless it is the bottom *)
(* one, that frame was called by a native operation.                         *)
LEMMA RunBaseProperties ==
  ASSUME frames \in Seq(Frame), ~Idle
  PROVE  /\ RunBase \in 1 .. Len(frames)
         /\ RunBase # 1 => frames[RunBase].nested
<1>. DEFINE S == {1} \cup {i \in DOMAIN frames : frames[i].nested}
<1>1. Len(frames) \in Nat \ {0} /\ DOMAIN frames = 1 .. Len(frames)
  BY EmptySeq, LenProperties DEF Idle
<1>2. S \subseteq 1 .. Len(frames) /\ S # {}
  BY <1>1
<1>3. Max(S) \in S
  BY <1>1, <1>2, MaxOfPositions, Zenon
<1>4. RunBase \in S
  BY <1>3 DEF RunBase
<1>. QED  BY <1>2, <1>4

(* A frame that is overwritten in place leaves a stack of the same depth. *)
LEMMA EditFrame ==
  ASSUME NEW s \in Seq(Frame), NEW i \in 1 .. Len(s), NEW g \in Frame
  PROVE  /\ [s EXCEPT ![i] = g] \in Seq(Frame)
         /\ Len([s EXCEPT ![i] = g]) = Len(s)
         /\ \A j \in 1 .. Len(s) : j # i => [s EXCEPT ![i] = g][j] = s[j]
         /\ [s EXCEPT ![i] = g][i] = g
BY ExceptSeq

-----------------------------------------------------------------------------
(* The worker runtime: the end of an execution *)

(* Ending an execution leaves a consistent worker: the VM is dropped, made   *)
(* anew or kept with the bindings of this epoch.                             *)
LEMMA FinishInv ==
  ASSUME WasmInv, ~Idle, NEW how \in {"ok", "raised", "internal", "timeout"}, Finish(how),
         how = "ok" => ~expired',
         late' \in BOOLEAN, expired' \in BOOLEAN, registry' = registry
  PROVE  WasmInv'
<1>. USE TimeoutAssumption, BoundAssumption
<1>1. /\ frames' = <<>> /\ frames' \in Seq(Frame) /\ Len(frames') <= MaxDepth
      /\ outcome' = how /\ exc' = FALSE
  BY EmptySeq DEF Finish
<1>2. /\ epoch \in 0 .. MaxEpoch /\ epoch < MaxEpoch /\ epoch + 1 \in 0 .. MaxEpoch
      /\ timeout \in MinTimeout .. MaxTimeout
      /\ registry' \subseteq Modules
  BY DEF WasmInv, RuntimeConsistent, WasmTypeOK, RunShape
<1>3. /\ state' \in {"ready", "failed"} /\ epoch' \in 0 .. MaxEpoch
      /\ timeout' \in MinTimeout .. MaxTimeout
      /\ vm' \in [live : BOOLEAN, bound : SUBSET (Names \X (0 .. MaxEpoch)),
                  sources : SUBSET Modules]
      /\ state' = "failed" => ~vm'.live
      /\ \A b \in vm'.bound : b[2] = epoch'
      /\ vm'.live => vm'.sources = registry'
  <2>1. CASE how = "internal"
    <3>1. vm' = NoVm /\ state' = "failed" /\ epoch' = epoch + 1 /\ timeout' = timeout
      BY <2>1 DEF Finish
    <3>. QED  BY <3>1, <1>2 DEF NoVm
  <2>2. CASE how = "timeout"
    <3>1. vm' = NewVm /\ state' = "ready" /\ epoch' = epoch + 1 /\ timeout' = DefaultTimeout
      BY <2>2 DEF Finish, ResetVm
    <3>. QED  BY <3>1, <1>2 DEF NewVm
  <2>3. CASE how \in {"ok", "raised"}
    <3>1. vm' = vm /\ state' = "ready" /\ epoch' = epoch /\ timeout' = timeout
      BY <2>3 DEF Finish
    <3>. QED  BY <3>1, <1>2 DEF WasmInv, RuntimeConsistent, WasmTypeOK, VmCurrent, NoOldBindings,
                                SourcesCurrent
  <2>. QED  BY <2>1, <2>2, <2>3
<1>4. WasmTypeOK'
  BY <1>1, <1>2, <1>3 DEF WasmTypeOK, States, Outcomes
<1>5. VmMatchesState' /\ RunShape'
  BY <1>1, <1>3 DEF VmMatchesState, RunShape, Idle
<1>6. VmCurrent'
  BY <1>3 DEF VmCurrent, NoOldBindings, SourcesCurrent
<1>7. DeadlineNotSwallowed'
  BY <1>1 DEF DeadlineNotSwallowed
<1>. QED  BY <1>4, <1>5, <1>6, <1>7 DEF WasmInv, RuntimeConsistent

-----------------------------------------------------------------------------
(* The worker runtime: the steps *)

(* A step of a running snippet that changes only the frames, the error in     *)
(* flight, the clock and what has been seen of it keeps the invariant when    *)
(* it keeps the snippet's frame at the bottom.                                *)
LEMMA FrameStepInv ==
  ASSUME WasmInv, ~Idle,
         UNCHANGED <<state, timeout, vm, registry, epoch, outcome>>,
         frames' \in Seq(Frame), Len(frames') \in 1 .. MaxDepth,
         ~frames'[1].nested,
         late' \in BOOLEAN, exc' \in BOOLEAN, expired' \in BOOLEAN,
         expired' => late'
  PROVE  WasmInv'
<1>1. ~Idle'
  BY EmptySeq DEF Idle
<1>2. WasmTypeOK'
  BY BoundAssumption DEF WasmInv, RuntimeConsistent, WasmTypeOK
<1>3. VmMatchesState' /\ RunShape'
  BY <1>1 DEF WasmInv, RuntimeConsistent, VmMatchesState, RunShape
<1>4. VmCurrent' /\ DeadlineNotSwallowed'
  BY DEF WasmInv, VmCurrent, NoOldBindings, SourcesCurrent, DeadlineNotSwallowed, RunShape
<1>. QED  BY <1>2, <1>3, <1>4 DEF WasmInv, RuntimeConsistent

(* The lifecycle and registry exports, called while nothing runs. *)
LEMMA IdleStepInv ==
  ASSUME WasmInv, Lifecycle \/ Library \/ Refuse
  PROVE  WasmInv'
<1>. USE TimeoutAssumption, BoundAssumption
<1>1. WasmTypeOK /\ VmMatchesState /\ VmCurrent /\ DeadlineNotSwallowed /\ RunShape
  BY DEF WasmInv, RuntimeConsistent
<1>2. CASE Start
  BY <1>1, <1>2 DEF Start, ResetVm, NewVm, WasmInv, RuntimeConsistent, WasmTypeOK, VmMatchesState,
     VmCurrent, NoOldBindings, SourcesCurrent, DeadlineNotSwallowed, RunShape, Idle, States
<1>3. CASE Terminate
  BY <1>1, <1>3 DEF Terminate, ResetVm, NoVm, WasmInv, RuntimeConsistent, WasmTypeOK, VmMatchesState,
     VmCurrent, NoOldBindings, SourcesCurrent, DeadlineNotSwallowed, RunShape, Idle, States
<1>4. ASSUME NEW ms \in Timeouts, SetTimeout(ms) PROVE WasmInv'
  BY <1>1, <1>4 DEF SetTimeout, WasmInv, RuntimeConsistent, WasmTypeOK, VmMatchesState,
     VmCurrent, NoOldBindings, SourcesCurrent, DeadlineNotSwallowed, RunShape, Idle
<1>5. ASSUME NEW sources \in SUBSET Modules, Idle, registry' = sources, Refresh(registry'),
             UNCHANGED <<state, timeout, frames, late, exc, expired, epoch, outcome>>
      PROVE  WasmInv'
  <2>1. /\ vm'.live = vm.live /\ vm'.bound = vm.bound
        /\ vm'.live => vm'.sources = registry'
        /\ vm' \in [live : BOOLEAN, bound : SUBSET (Names \X (0 .. MaxEpoch)),
                    sources : SUBSET Modules]
    BY <1>1, <1>5 DEF WasmTypeOK, Refresh
  <2>2. WasmTypeOK' /\ VmMatchesState'
    BY <1>1, <1>5, <2>1 DEF WasmTypeOK, VmMatchesState, Idle
  <2>3. VmCurrent' /\ DeadlineNotSwallowed' /\ RunShape'
    BY <1>1, <1>5, <2>1 DEF VmCurrent, NoOldBindings, SourcesCurrent, DeadlineNotSwallowed,
       RunShape, Idle
  <2>. QED  BY <2>2, <2>3 DEF WasmInv, RuntimeConsistent
<1>6. CASE ClearModules
  BY <1>5, <1>6 DEF ClearModules
<1>7. ASSUME NEW m \in Modules, RegisterModule(m) PROVE WasmInv'
  <2>1. registry \cup {m} \in SUBSET Modules
    BY <1>1 DEF WasmTypeOK
  <2>. QED  BY <1>5, <1>7, <2>1 DEF RegisterModule
<1>8. CASE Refuse
  BY <1>1, <1>8 DEF Refuse, WasmInv, RuntimeConsistent, WasmTypeOK, VmMatchesState,
     VmCurrent, NoOldBindings, SourcesCurrent, DeadlineNotSwallowed, RunShape, Idle, Outcomes
<1>. QED  BY <1>2, <1>3, <1>4, <1>6, <1>7, <1>8 DEF Lifecycle, Library

(* A snippet starts on the worker's VM, or on a new one. *)
LEMMA ExecuteSnippetInv ==
  ASSUME WasmInv, NEW tries \in BOOLEAN, ExecuteSnippet(tries)
  PROVE  WasmInv'
<1>. USE TimeoutAssumption, BoundAssumption
<1>. DEFINE g == [nested |-> FALSE, tries |-> tries]
<1>1. WasmTypeOK /\ VmMatchesState /\ VmCurrent
  BY DEF WasmInv, RuntimeConsistent
<1>2. g \in Frame /\ ~g.nested
  BY DEF Frame
<1>3. frames' = <<g>>
  BY DEF ExecuteSnippet
<1>4. frames' \in Seq(Frame) /\ Len(frames') = 1 /\ ~frames'[1].nested
  BY <1>2, <1>3
<1>5. ~Idle'
  BY <1>4, EmptySeq DEF Idle
<1>6. /\ vm' \in [live : BOOLEAN, bound : SUBSET (Names \X (0 .. MaxEpoch)),
                  sources : SUBSET Modules]
      /\ vm'.live /\ vm'.sources = registry /\ \A b \in vm'.bound : b[2] = epoch
  BY <1>1 DEF ExecuteSnippet, NewVm, WasmTypeOK, VmCurrent, NoOldBindings, SourcesCurrent
<1>7. WasmTypeOK'
  <2>1. /\ state' = "busy" /\ timeout' = timeout /\ registry' = registry /\ epoch' = epoch
        /\ outcome' = "none" /\ late' = FALSE /\ exc' = FALSE /\ expired' = FALSE
    BY DEF ExecuteSnippet
  <2>2. state' \in States /\ outcome' \in Outcomes
    BY <2>1 DEF States, Outcomes
  <2>3. late' \in BOOLEAN /\ exc' \in BOOLEAN /\ expired' \in BOOLEAN
    BY <2>1
  <2>4. /\ timeout' \in MinTimeout .. MaxTimeout /\ registry' \subseteq Modules
        /\ epoch' \in 0 .. MaxEpoch /\ Len(frames') <= MaxDepth
    BY <1>1, <1>4, <2>1 DEF WasmTypeOK
  <2>. QED  BY <1>4, <1>6, <2>2, <2>3, <2>4 DEF WasmTypeOK
<1>8. VmMatchesState' /\ VmCurrent'
  BY <1>5, <1>6 DEF ExecuteSnippet, VmMatchesState, VmCurrent, NoOldBindings, SourcesCurrent
<1>9. DeadlineNotSwallowed' /\ RunShape'
  BY <1>4, <1>5 DEF ExecuteSnippet, DeadlineNotSwallowed, RunShape
<1>. QED  BY <1>7, <1>8, <1>9 DEF WasmInv, RuntimeConsistent

(* Instructions: a binding, a call, a return, an error. *)
LEMMA InstructionInv ==
  ASSUME WasmInv, (\E n \in Names : Bind(n)) \/ (\E f \in Frame : Call(f)) \/ Return \/ Raise
               \/ InternalError
  PROVE  WasmInv'
<1>. USE BoundAssumption
<1>1. WasmTypeOK /\ VmMatchesState /\ VmCurrent /\ DeadlineNotSwallowed /\ RunShape
  BY DEF WasmInv, RuntimeConsistent
<1>2. Steps /\ ~Idle /\ ~late /\ ~exc /\ ~expired
  BY <1>1 DEF Bind, Call, Return, Raise, InternalError, Steps, RunShape
<1>3. Len(frames) \in 1 .. MaxDepth /\ frames \in Seq(Frame) /\ ~frames[1].nested
  BY <1>1, <1>2, EmptySeq DEF WasmTypeOK, Idle, RunShape
<1>4. ASSUME NEW n \in Names, Bind(n) PROVE WasmInv'
  <2>1. /\ vm' \in [live : BOOLEAN, bound : SUBSET (Names \X (0 .. MaxEpoch)),
                    sources : SUBSET Modules]
        /\ vm'.live = vm.live /\ vm'.sources = vm.sources
        /\ vm'.bound = vm.bound \cup {<<n, epoch>>}
    BY SMTT(60), <1>1, <1>4 DEF Bind, WasmTypeOK
  <2>2. WasmTypeOK' /\ VmMatchesState'
    BY <1>1, <1>4, <2>1 DEF Bind, WasmTypeOK, VmMatchesState, Idle
  <2>3. VmCurrent'
    BY <1>1, <1>4, <2>1 DEF Bind, VmCurrent, NoOldBindings, SourcesCurrent
  <2>4. DeadlineNotSwallowed' /\ RunShape'
    BY <1>1, <1>4 DEF Bind, DeadlineNotSwallowed, RunShape, Idle
  <2>. QED  BY <2>2, <2>3, <2>4 DEF WasmInv, RuntimeConsistent
<1>5. ASSUME NEW f \in Frame, Call(f) PROVE WasmInv'
  <2>1. /\ frames' \in Seq(Frame) /\ Len(frames') = Len(frames) + 1
        /\ frames'[1] = frames[1]
    BY <1>3, <1>5, AppendProperties DEF Call
  <2>. QED  BY <1>1, <1>2, <1>3, <1>5, <2>1, FrameStepInv DEF Call, WasmTypeOK
<1>6. CASE Return
  <2>1. CASE Len(frames) > 1 /\ frames' = SubSeq(frames, 1, Len(frames) - 1)
             /\ UNCHANGED <<state, timeout, vm, exc, epoch, outcome>>
    <3>1. /\ frames' \in Seq(Frame) /\ Len(frames') = Len(frames) - 1
          /\ frames'[1] = frames[1]
      <4>1. Len(frames) - 1 \in 0 .. Len(frames)
        BY <1>3
      <4>. QED  BY <1>3, <2>1, <4>1, PrefixProperties
    <3>. QED  BY <1>1, <1>2, <1>3, <1>6, <2>1, <3>1, FrameStepInv DEF Return, WasmTypeOK
  <2>2. CASE Finish("ok")
    BY <1>1, <1>2, <1>6, <2>2, FinishInv DEF Return, WasmTypeOK
  <2>. QED  BY <1>6, <2>1, <2>2 DEF Return
<1>7. CASE Raise
  BY <1>1, <1>2, <1>3, <1>7, FrameStepInv DEF Raise, WasmTypeOK
<1>8. CASE InternalError
  BY <1>1, <1>2, <1>8, FinishInv DEF InternalError, WasmTypeOK
<1>. QED  BY <1>4, <1>5, <1>6, <1>7, <1>8

(* The deadline's error leaves the innermost run; that of the outermost run *)
(* ends the execution.                                                      *)
LEMMA DeadlineInv ==
  ASSUME WasmInv, Deadline
  PROVE  WasmInv'
<1>. USE BoundAssumption
<1>1. WasmTypeOK /\ RunShape /\ ~Idle /\ late /\ expired' = TRUE /\ registry' = registry /\ late' = late
  BY DEF WasmInv, RuntimeConsistent, Deadline
<1>2. Len(frames) \in 1 .. MaxDepth /\ frames \in Seq(Frame) /\ ~frames[1].nested
  BY <1>1, EmptySeq DEF WasmTypeOK, Idle, RunShape
<1>3. CASE Finish("timeout")
  BY <1>1, <1>3, FinishInv DEF WasmTypeOK
<1>4. CASE /\ frames[RunBase].nested
           /\ frames' = [frames EXCEPT ![RunBase].nested = FALSE]
           /\ exc' = TRUE
           /\ UNCHANGED <<state, timeout, vm, epoch, outcome>>
  <2>. DEFINE b == RunBase
              g == [frames[b] EXCEPT !.nested = FALSE]
  <2>1. b \in 1 .. Len(frames) /\ b # 1
    BY <1>1, <1>2, <1>4, RunBaseProperties
  <2>2. g \in Frame
    <3>1. frames[b] \in Frame
      BY <1>2, <2>1, ElementOfSeq
    <3>. QED  BY <3>1 DEF Frame
  <2>3. frames' = [frames EXCEPT ![b] = g]
    BY <1>4
  <2>4. /\ frames' \in Seq(Frame) /\ Len(frames') = Len(frames)
        /\ frames'[1] = frames[1]
    <3>. HIDE DEF b, g
    <3>. QED  BY <1>2, <2>1, <2>2, <2>3, EditFrame
  <2>. QED  BY <1>1, <1>2, <1>4, <2>4, FrameStepInv DEF WasmTypeOK
<1>. QED  BY <1>3, <1>4 DEF Deadline

(* An error finds a handler in the innermost run, or leaves it. *)
LEMMA UnwindInv ==
  ASSUME WasmInv, Unwind
  PROVE  WasmInv'
<1>. USE BoundAssumption
<1>. DEFINE covered == {i \in RunBase .. Len(frames) : frames[i].tries}
<1>1. /\ WasmTypeOK /\ RunShape /\ exc /\ ~Idle
      /\ registry' = registry /\ late' = late /\ expired' = expired
  BY DEF WasmInv, RuntimeConsistent, Unwind, RunShape
<1>2. Len(frames) \in 1 .. MaxDepth /\ frames \in Seq(Frame) /\ ~frames[1].nested
  BY <1>1, EmptySeq DEF WasmTypeOK, Idle, RunShape
<1>3. RunBase \in 1 .. Len(frames)
  BY SMTT(60), <1>1, <1>2, RunBaseProperties
<1>4. ASSUME covered # {},
             frames' = [SubSeq(frames, 1, Max(covered)) EXCEPT ![Max(covered)].tries = FALSE],
             exc' = FALSE, UNCHANGED <<state, timeout, vm, epoch, outcome>>
      PROVE  WasmInv'
  <2>1. covered \subseteq 1 .. Len(frames) /\ Len(frames) \in Nat
    BY <1>2, <1>3
  <2>. DEFINE h == Max(covered)
              s == SubSeq(frames, 1, h)
              g == [s[h] EXCEPT !.tries = FALSE]
  <2>2. h \in 1 .. Len(frames)
    <3>. HIDE DEF covered
    <3>. QED  BY <1>4, <2>1, MaxOfPositions
  <2>3. s \in Seq(Frame) /\ Len(s) = h /\ \A i \in 1 .. h : s[i] = frames[i]
    <3>. HIDE DEF h
    <3>. QED  BY <1>2, <2>2, PrefixProperties
  <2>4. g \in Frame /\ g.nested = frames[h].nested
    <3>1. frames[h] \in Frame /\ s[h] = frames[h]
      BY <1>2, <2>2, <2>3, ElementOfSeq
    <3>. QED  BY <3>1 DEF Frame
  <2>5. frames' = [s EXCEPT ![h] = g]
    BY <1>4
  <2>6. /\ frames' \in Seq(Frame) /\ Len(frames') = h
        /\ frames'[1].nested = frames[1].nested
    <3>1. h \in 1 .. Len(s)
      BY <2>2, <2>3
    <3>. HIDE DEF h, s, g
    <3>2. /\ frames' \in Seq(Frame) /\ Len(frames') = h
          /\ \A j \in 1 .. h : j # h => frames'[j] = s[j]
          /\ frames'[h] = g
      BY <2>3, <2>4, <2>5, <3>1, EditFrame
    <3>. QED  BY <2>2, <2>3, <2>4, <3>2
  <2>7. Len(frames') \in 1 .. MaxDepth /\ ~frames'[1].nested
    <3>. HIDE DEF h
    <3>. QED  BY <1>2, <2>2, <2>6
  <2>8. late' \in BOOLEAN /\ exc' \in BOOLEAN /\ expired' \in BOOLEAN /\ (expired' => late')
    BY <1>1, <1>4 DEF WasmTypeOK, RunShape
  <2>. QED  BY <1>1, <1>4, <2>6, <2>7, <2>8, FrameStepInv
<1>5. ASSUME frames[RunBase].nested, frames' = SubSeq(frames, 1, RunBase - 1),
             UNCHANGED <<state, timeout, vm, exc, epoch, outcome>>
      PROVE  WasmInv'
  <2>1. RunBase # 1 /\ RunBase - 1 \in 1 .. Len(frames)
    BY <1>2, <1>3, <1>5
  <2>2. /\ frames' \in Seq(Frame) /\ Len(frames') = RunBase - 1
        /\ frames'[1] = frames[1]
    BY <1>2, <1>5, <2>1, PrefixProperties
  <2>. QED  BY <1>1, <1>2, <1>5, <2>1, <2>2, FrameStepInv DEF WasmTypeOK, RunShape
<1>6. CASE Finish("raised")
  BY <1>1, <1>6, FinishInv DEF WasmTypeOK
<1>. QED  BY <1>4, <1>5, <1>6 DEF Unwind

-----------------------------------------------------------------------------
(* The worker runtime: theorems *)

(* A worker that has been set up satisfies the inductive invariant. *)
LEMMA WasmInitInv == WasmInit => WasmInv
<1>. SUFFICES ASSUME WasmInit PROVE WasmInv
  OBVIOUS
<1>1. WasmTypeOK
  <2>1. frames \in Seq(Frame) /\ Len(frames) <= MaxDepth
    BY BoundAssumption, EmptySeq DEF WasmInit
  <2>2. vm \in [live : BOOLEAN, bound : SUBSET (Names \X (0 .. MaxEpoch)),
                sources : SUBSET Modules]
    BY DEF WasmInit, NoVm
  <2>3. state \in States /\ outcome \in Outcomes
    BY DEF WasmInit, States, Outcomes
  <2>4. late \in BOOLEAN /\ exc \in BOOLEAN /\ expired \in BOOLEAN
    BY DEF WasmInit
  <2>5. timeout \in MinTimeout .. MaxTimeout /\ registry \subseteq Modules /\ epoch \in 0 .. MaxEpoch
    BY TimeoutAssumption, BoundAssumption DEF WasmInit
  <2>. QED  BY <2>1, <2>2, <2>3, <2>4, <2>5 DEF WasmTypeOK
<1>2. VmMatchesState /\ VmCurrent /\ DeadlineNotSwallowed /\ RunShape
  BY DEF WasmInit, VmMatchesState, VmCurrent, NoOldBindings, SourcesCurrent, DeadlineNotSwallowed,
         RunShape, Idle, NoVm
<1>. QED  BY <1>1, <1>2 DEF WasmInv, RuntimeConsistent

(* Every export, every instruction and every tick of the clock keeps it. *)
LEMMA WasmNextInv == WasmInv /\ [WasmNext]_wasmVars => WasmInv'
<1>. SUFFICES ASSUME WasmInv, [WasmNext]_wasmVars PROVE WasmInv'
  OBVIOUS
<1>1. CASE UNCHANGED wasmVars
  BY <1>1 DEF wasmVars, WasmInv, RuntimeConsistent, WasmTypeOK, VmMatchesState, VmCurrent, NoOldBindings,
              SourcesCurrent, DeadlineNotSwallowed, RunShape, Idle
<1>2. CASE Lifecycle \/ Library \/ Refuse
  BY <1>2, IdleStepInv
<1>3. ASSUME NEW tries \in BOOLEAN, ExecuteSnippet(tries) PROVE WasmInv'
  BY <1>3, ExecuteSnippetInv
<1>4. CASE VmStep
  BY <1>4, InstructionInv, DeadlineInv, UnwindInv DEF VmStep
<1>5. CASE Tick
  <2>1. WasmTypeOK /\ RunShape /\ ~Idle
    BY <1>5 DEF WasmInv, RuntimeConsistent, Tick
  <2>2. Len(frames) \in 1 .. MaxDepth /\ frames \in Seq(Frame) /\ ~frames[1].nested
    BY <2>1, EmptySeq, BoundAssumption DEF WasmTypeOK, Idle, RunShape
  <2>. QED  BY <1>5, <2>1, <2>2, FrameStepInv DEF Tick, WasmTypeOK
<1>. QED  BY <1>1, <1>2, <1>3, <1>4, <1>5 DEF WasmNext

(* The inductive invariant holds in every reachable state. *)
THEOREM WasmInvariance == WasmSpec => []WasmInv
<1>. QED  BY WasmInitInv, WasmNextInv, PTL DEF WasmSpec

(* The worker is busy exactly while a snippet runs, then has a VM, and has    *)
(* none while it is terminated or failed (src/wasm/mod.rs), for any depth of  *)
(* frames and any number of restarts.                                         *)
THEOREM RuntimeIsConsistent == WasmSpec => []RuntimeConsistent
<1>1. WasmInv => RuntimeConsistent
  BY DEF WasmInv
<1>. QED  BY <1>1, WasmInvariance, PTL

(* No binding survives a lifecycle edge and the VM's copy of the virtual      *)
(* library is the registered one (src/wasm/mod.rs reset_worker_vm,            *)
(* refresh_worker_vm_virtual_stdlib_sources).                                 *)
THEOREM VmIsCurrent == WasmSpec => []VmCurrent
<1>1. WasmInv => VmCurrent
  BY DEF WasmInv
<1>. QED  BY <1>1, WasmInvariance, PTL

(* An execution that saw its deadline never ends in success, however deep the *)
(* nested runs and wherever the except blocks are (src/vm/vm_execution.rs).   *)
THEOREM DeadlineIsNotSwallowed == WasmSpec => []DeadlineNotSwallowed
<1>1. WasmInv => DeadlineNotSwallowed
  BY DEF WasmInv
<1>. QED  BY <1>1, WasmInvariance, PTL
=============================================================================
