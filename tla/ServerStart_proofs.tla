------------------------- MODULE ServerStart_proofs -------------------------
(***************************************************************************)
(* The invariants of ServerStart, for callers that name files, callers     *)
(* that do not, or both.                                                   *)
(***************************************************************************)
EXTENDS ServerStart, TLAPS

-----------------------------------------------------------------------------
(* Types.  The pair of ensure_tls_init is never handed to the server.      *)

UseOK == use # "init"
Types == TypeOK /\ UseOK

\* What the helpers on files do to the type of disk and fault.
LEMMA PersistType ==
    ASSUME NEW p \in Pair, NEW content \in {"none", "bad", "good"}, TypeOK, Persist(p, content)
    PROVE  /\ disk' \in [Pair -> {"none", "bad", "good"}] /\ fault' \in BOOLEAN
           /\ \A q \in Pair \ {p} : disk'[q] = disk[q]
           /\ fault => fault'
BY DEF Persist, TypeOK

LEMMA DropType ==
    ASSUME TypeOK, DropHandles
    PROVE  /\ disk' \in [Pair -> {"none", "bad", "good"}]
           /\ \A q \in Pair \ {"orig"} : disk'[q] = disk[q]
           /\ ~given => disk'["orig"] = "none"
BY DEF DropHandles, TypeOK, Pair

\* Every step keeps the types.
LEMMA TypesStep == Types /\ [Next]_vars => Types'
<1> SUFFICES ASSUME Types, [Next]_vars PROVE Types' OBVIOUS
<1> USE DEF Types, UseOK
<1>1. CASE EnsureTlsInit
  BY <1>1, PersistType DEF EnsureTlsInit, TypeOK, Pair
<1>2. CASE CallerDrops
  BY <1>2 DEF CallerDrops, TypeOK, Pair
<1>3. CASE RunServer
  <2>1. disk' \in [Pair -> {"none", "bad", "good"}] /\ fault' \in BOOLEAN
    BY <1>3 DEF RunServer, CreatePair, TypeOK, Pair
  <2> QED BY <1>3, <2>1 DEF RunServer, TypeOK
<1>4. CASE Signal \/ QueueEnds
  BY <1>4 DEF Signal, QueueEnds, TypeOK
<1>5. CASE ProcessExits
  BY <1>5 DEF ProcessExits, TypeOK, Over
<1>6. CASE ReadOriginals
  BY <1>6 DEF ReadOriginals, TypeOK, Pair
<1>7. CASE Copy
  BY <1>7, PersistType DEF Copy, TypeOK, Pair
<1>8. CASE CopyFails
  BY <1>8, DropType DEF CopyFails, TypeOK, Over
<1>9. CASE Create
  <2>1. CASE Succeeds
    BY <1>9, <2>1 DEF Create, Succeeds, TypeOK, Pair
  <2>2. CASE ~Succeeds
    BY <1>9, <2>2, DropType DEF Create, TypeOK, Over, ReclaimContext
  <2> QED BY <2>1, <2>2
<1>10. CASE Retry
  BY <1>10, PersistType DEF Retry, FreshFiles, TypeOK, Pair
<1>11. CASE RetryFails
  BY <1>11, DropType DEF RetryFails, ReclaimContext, TypeOK, Over
<1>12. CASE LoopReturns
  BY <1>12, DropType DEF LoopReturns, TypeOK, Over
<1>13. CASE Bind
  BY <1>13 DEF Bind, TypeOK
<1>14. CASE BindFails
  BY <1>14, DropType DEF BindFails, TypeOK, Over
<1>15. CASE UNCHANGED vars
  BY <1>15 DEF vars, TypeOK
<1> QED BY <1>1, <1>2, <1>3, <1>4, <1>5, <1>6, <1>7, <1>8, <1>9, <1>10, <1>11, <1>12, <1>13, <1>14,
           <1>15
        DEF Next, Thread

LEMMA TypesInit == Init => Types
BY GivensAssumption DEF Init, Types, TypeOK, UseOK, Pair, Over

LEMMA TypesAlways == Spec => []Types
BY TypesInit, TypesStep, PTL DEF Spec

\* Every variable has its type, and the server never shows the pair ensure_tls_init
\* leaves behind.
THEOREM TypeCorrect == Spec => []TypeOK
<1>1. Types => TypeOK BY DEF Types
<1> QED BY <1>1, TypesAlways, PTL

-----------------------------------------------------------------------------
(* Which pair is shown.  PresentsGiven is not inductive: it rests on why   *)
(* the thread came to its second try, and that on the first copy being     *)
(* whole if what was read was.                                             *)

\* Before the thread has read the files nothing is chosen.
NotYet == thread \in {"none", "read"} => bytes = "none" /\ presented = "none" /\ use = "orig"

\* The first try has a good copy of a good pair, unless something failed.
FirstTry == thread = "create" /\ bytes = "good" => fault \/ (use = "copy" /\ disk["copy"] = "good")

\* The second try, and what it shows, has its reason.
SecondTry == thread \in {"retry", "createRetry"} \/ use = "retry" => fault \/ bytes # "good"

ShownInv == NotYet /\ FirstTry /\ SecondTry /\ PresentsGiven
MainFirst == main = "idle" => thread = "none"

LEMMA ShownStep == Types /\ MainFirst /\ ShownInv /\ [Next]_vars => ShownInv' /\ MainFirst'
<1> SUFFICES ASSUME Types, MainFirst, ShownInv, [Next]_vars PROVE ShownInv' /\ MainFirst' OBVIOUS
<1> USE DEF ShownInv, NotYet, FirstTry, SecondTry, PresentsGiven, MainFirst, Types
<1>1. CASE EnsureTlsInit
  BY <1>1, PersistType DEF EnsureTlsInit, Pair
<1>2. CASE CallerDrops
  BY <1>2 DEF CallerDrops, TypeOK, Pair
<1>3. CASE RunServer
  <2>1. fault => fault'
    BY <1>3 DEF RunServer, CreatePair
  <2> QED BY <1>3, <2>1 DEF RunServer
<1>4. CASE Signal \/ QueueEnds
  BY <1>4 DEF Signal, QueueEnds
<1>5. CASE ProcessExits
  BY <1>5 DEF ProcessExits
<1>6. CASE ReadOriginals
  BY <1>6 DEF ReadOriginals, TypeOK
<1>7. CASE Copy
  <2>1. fault' \/ disk'["copy"] = bytes
    BY <1>7 DEF Copy, Persist, TypeOK, Pair
  <2> QED BY <1>7, <2>1, PersistType DEF Copy, TypeOK, Pair
<1>8. CASE CopyFails
  BY <1>8 DEF CopyFails
<1>9. CASE Create
  <2>1. CASE Succeeds
    BY <1>9, <2>1 DEF Create, Succeeds, TypeOK
  <2>2. CASE ~Succeeds
    BY <1>9, <2>2 DEF Create, ReclaimContext, TypeOK
  <2> QED BY <2>1, <2>2
<1>10. CASE Retry
  BY <1>10, PersistType DEF Retry, FreshFiles, Pair
<1>11. CASE RetryFails
  BY <1>11 DEF RetryFails, ReclaimContext
<1>12. CASE LoopReturns
  BY <1>12, DropType DEF LoopReturns, Pair
<1>13. CASE Bind
  BY <1>13 DEF Bind
<1>14. CASE BindFails
  BY <1>14, DropType DEF BindFails, Pair
<1>15. CASE UNCHANGED vars
  BY <1>15 DEF vars
<1> QED BY <1>1, <1>2, <1>3, <1>4, <1>5, <1>6, <1>7, <1>8, <1>9, <1>10, <1>11, <1>12, <1>13, <1>14,
           <1>15
        DEF Next, Thread

LEMMA ShownInit == Init => ShownInv /\ MainFirst
BY DEF Init, ShownInv, NotYet, FirstTry, SecondTry, PresentsGiven, MainFirst

LEMMA ShownAlways == Spec => [](ShownInv /\ MainFirst)
<1>1. Types /\ (ShownInv /\ MainFirst) /\ [Next]_vars => (ShownInv /\ MainFirst)'
  BY ShownStep
<1> QED BY <1>1, ShownInit, TypesAlways, PTL DEF Spec

\* A server shows another certificate than the one its caller named only if an
\* operation failed, or what the thread read of the files was no good pair.
THEOREM GivenIsPresented == Spec => []PresentsGiven
<1>1. ShownInv /\ MainFirst => PresentsGiven BY DEF ShownInv
<1> QED BY <1>1, ShownAlways, PTL

-----------------------------------------------------------------------------
(* The life of the temporary pair.                                         *)

LEMMA TemporariesStep ==
    Types /\ MainFirst /\ TemporariesLiveWithThread /\ [Next]_vars => TemporariesLiveWithThread'
<1> SUFFICES ASSUME Types, MainFirst, TemporariesLiveWithThread, [Next]_vars
             PROVE  TemporariesLiveWithThread'
  OBVIOUS
<1> USE DEF TemporariesLiveWithThread, Running, Over, Types, MainFirst
<1>1. CASE EnsureTlsInit
  BY <1>1, PersistType DEF EnsureTlsInit, Pair
<1>2. CASE CallerDrops
  BY <1>2 DEF CallerDrops
<1>3. CASE RunServer
  <2>1. CASE given \/ disk'["orig"] = "good"
    BY <1>3, <2>1 DEF RunServer
  <2>2. CASE ~(given \/ disk'["orig"] = "good")
    BY <1>3, <2>2 DEF RunServer
  <2> QED BY <2>1, <2>2
<1>4. CASE Signal \/ QueueEnds
  BY <1>4 DEF Signal, QueueEnds
<1>5. CASE ProcessExits
  BY <1>5 DEF ProcessExits
<1>6. CASE ReadOriginals
  BY <1>6 DEF ReadOriginals
<1>7. CASE Copy
  BY <1>7, PersistType DEF Copy, TypeOK, Pair
<1>8. CASE CopyFails
  BY <1>8, DropType DEF CopyFails
<1>9. CASE Create
  <2>1. CASE Succeeds
    BY <1>9, <2>1 DEF Create, Succeeds
  <2>2. CASE ~Succeeds
    BY <1>9, <2>2, DropType DEF Create, ReclaimContext
  <2> QED BY <2>1, <2>2
<1>10. CASE Retry
  BY <1>10, PersistType DEF Retry, Pair
<1>11. CASE RetryFails
  BY <1>11, DropType DEF RetryFails, ReclaimContext
<1>12. CASE LoopReturns
  BY <1>12, DropType DEF LoopReturns
<1>13. CASE Bind
  BY <1>13 DEF Bind
<1>14. CASE BindFails
  BY <1>14, DropType DEF BindFails
<1>15. CASE UNCHANGED vars
  BY <1>15 DEF vars
<1> QED BY <1>1, <1>2, <1>3, <1>4, <1>5, <1>6, <1>7, <1>8, <1>9, <1>10, <1>11, <1>12, <1>13, <1>14,
           <1>15
        DEF Next, Thread

\* The pair run_server makes is on disk exactly as long as the thread that may read
\* it, wherever the thread returns.
THEOREM TemporariesCorrect == Spec => []TemporariesLiveWithThread
<1>1. Init => TemporariesLiveWithThread BY DEF Init, TemporariesLiveWithThread
<1> QED BY <1>1, TemporariesStep, TypesAlways, ShownAlways, PTL DEF Spec
=============================================================================
