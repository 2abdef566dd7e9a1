----------------------------- MODULE ServerStart -----------------------------
(***************************************************************************)
(* How the slipstream server starts: run_server names a pair of PEM files  *)
(* (certificate and key), its thread copies them, and picoquic_create      *)
(* reads the copy; when that fails a fresh pair is tried.  Most errors on  *)
(* the way are ignored, and the files are deleted with their handles.      *)
(*                                                                         *)
(* A pair is "good", "bad" (picoquic cannot load it: not PEM, cut short,   *)
(* or one file of the two is missing), or "none".                          *)
(***************************************************************************)
EXTENDS Naturals

CONSTANT Givens    \* subset of BOOLEAN: may the caller name files of its own?

ASSUME GivensAssumption == Givens \subseteq BOOLEAN

Pair == {"init", "orig", "copy", "retry"}

VARIABLES
    given,      \* cert_key_paths is Some
    main,       \* the caller and the accept loop of run_server
    thread,     \* the thread run_server spawns
    disk,       \* external: the pairs of files there are
    bytes,      \* what the thread read of the originals
    use,        \* the paths given to picoquic_create
    presented,  \* the pair picoquic_create loaded, whose certificate is shown
    fault       \* history: an operation failed that had what it needed

vars == <<given, main, thread, disk, bytes, use, presented, fault>>

Init ==
    /\ given \in Givens
    /\ main = "idle" /\ thread = "none"
    /\ disk \in [Pair -> {"none", "bad", "good"}]
    /\ \A p \in Pair : disk[p] # "none" => p = "orig" /\ given
    /\ bytes = "none" /\ use = "orig" /\ presented = "none" /\ fault = FALSE

Over == {"ended", "leaked", "killed"}
Running == thread \notin Over \cup {"none"}

-----------------------------------------------------------------------------
(* The caller and run_server.                                              *)

\* create_temp_pem_files: both files whole, or an error and neither.
CreatePair(p) ==
    \/ disk' = [disk EXCEPT ![p] = "good"] /\ UNCHANGED fault
    \/ fault' = TRUE /\ UNCHANGED disk

\* mutant: the copy's handles are dropped while its paths are still in use
NotPersisted(p, content) ==
    disk' = [disk EXCEPT ![p] = IF p = "copy" THEN "none" ELSE content] /\ UNCHANGED fault

\* persist: the files stay when their handles are dropped.  Errors of the write
\* and of persist (which deletes the file) are ignored.
Persist(p, content) ==
    \/ disk' = [disk EXCEPT ![p] = content] /\ UNCHANGED fault
    \/ disk' = [disk EXCEPT ![p] = "bad"] /\ fault' = TRUE

\* A pair of its own, persisted, for a first picoquic_create.
EnsureTlsInit ==
    /\ main = "idle" /\ disk["init"] = "none"
    /\ Persist("init", "good")
    /\ UNCHANGED <<given, main, thread, bytes, use, presented>>

\* The caller drops its handles, although it should keep the files alive.
CallerDrops ==
    /\ given /\ disk["orig"] # "none"
    /\ disk' = [disk EXCEPT !["orig"] = "none"]
    /\ UNCHANGED <<given, main, thread, bytes, use, presented, fault>>

\* run_server: without paths it makes a pair, or returns the error.
RunServer ==
    /\ main = "idle"
    /\ IF given THEN UNCHANGED <<disk, fault>> ELSE CreatePair("orig")
    /\ IF given \/ disk'["orig"] = "good"
       THEN main' = "serving" /\ thread' = "read"
       ELSE main' = "returned" /\ UNCHANGED thread
    /\ UNCHANGED <<given, bytes, use, presented>>

Signal ==
    /\ main = "serving" /\ main' = "returned"
    /\ UNCHANGED <<given, thread, disk, bytes, use, presented, fault>>

\* recv() yields None: accept_tx was dropped, with the closure or with the Box.
QueueEnds ==
    /\ main = "serving" /\ thread = "ended"
    /\ main' = "returned"
    /\ UNCHANGED <<given, thread, disk, bytes, use, presented, fault>>

\* main returns and the process ends; the thread's drops do not run.
ProcessExits ==
    /\ main = "returned" /\ main' = "exited"
    /\ thread' = IF Running THEN "killed" ELSE thread
    /\ UNCHANGED <<given, disk, bytes, use, presented, fault>>

-----------------------------------------------------------------------------
(* The thread.                                                             *)

\* mutant: the handles are forgotten, not moved into the thread
DropNothing == UNCHANGED disk

\* _keep_pem_files is dropped when the closure returns, wherever it does.
DropHandles == disk' = IF given THEN disk ELSE [disk EXCEPT !["orig"] = "none"]

\* std::fs::read of both files; if that fails their own paths are used.
ReadOriginals ==
    /\ thread = "read"
    /\ \/ /\ disk["orig"] # "none"
          /\ bytes' = disk["orig"] /\ thread' = "copy" /\ UNCHANGED fault
       \/ /\ fault' = (fault \/ disk["orig"] = "good")
          /\ thread' = "create" /\ UNCHANGED bytes
    /\ UNCHANGED <<given, main, disk, use, presented>>

Copy ==
    /\ thread = "copy"
    /\ Persist("copy", bytes)
    /\ use' = "copy" /\ thread' = "create"
    /\ UNCHANGED <<given, main, bytes, presented>>

\* new_in fails for one of the files: the closure returns.
CopyFails ==
    /\ thread = "copy"
    /\ fault' = TRUE /\ thread' = "ended" /\ DropHandles
    /\ UNCHANGED <<given, main, bytes, use, presented>>

\* mutant: the context is leaked as after the packet loop
LeakContext == "leaked"

\* ok is false: the Box is taken back, and accept_tx dropped with it.
ReclaimContext == "ended"

Succeeds == thread' = "bind" /\ presented' = use /\ UNCHANGED <<disk, fault>>

\* picoquic_create needs a good pair, and may fail for reasons of its own.
Create ==
    /\ thread \in {"create", "createRetry"}
    /\ \/ disk[use] = "good" /\ Succeeds
       \/ /\ fault' = (fault \/ disk[use] = "good")
          /\ IF thread = "create"
             THEN thread' = "retry" /\ UNCHANGED disk
             ELSE thread' = ReclaimContext /\ DropHandles
          /\ UNCHANGED presented
    /\ UNCHANGED <<given, main, bytes, use>>

\* mutants: the second try reads the same files, or those of ensure_tls_init
SameFiles == use
InitFiles == "init"

FreshFiles == "retry"

\* A pair made by create_temp_pem_files and persisted, for a second try.
Retry ==
    /\ thread = "retry"
    /\ Persist("retry", "good")
    /\ use' = FreshFiles /\ thread' = "createRetry"
    /\ UNCHANGED <<given, main, bytes, presented>>

RetryFails ==
    /\ thread = "retry"
    /\ fault' = TRUE /\ thread' = ReclaimContext /\ DropHandles
    /\ UNCHANGED <<given, main, bytes, use, presented>>

\* picoquic_packet_loop opens its socket and runs.
Bind ==
    /\ thread = "bind"
    /\ thread' = "loop"
    /\ UNCHANGED <<given, main, disk, bytes, use, presented, fault>>

\* The port is taken: picoquic_packet_loop returns at once.  Its result is ignored,
\* ok is true, and the Box with accept_tx in it stays leaked.
BindFails ==
    /\ thread = "bind"
    /\ fault' = TRUE /\ thread' = "leaked" /\ DropHandles
    /\ UNCHANGED <<given, main, bytes, use, presented>>

\* The loop ends later: the Box stays leaked too.
LoopReturns ==
    /\ thread = "loop"
    /\ thread' = "leaked" /\ DropHandles
    /\ UNCHANGED <<given, main, bytes, use, presented, fault>>

-----------------------------------------------------------------------------

Thread ==
    \/ ReadOriginals \/ Copy \/ CopyFails \/ Create \/ Retry \/ RetryFails
    \/ Bind \/ BindFails

Next ==
    \/ EnsureTlsInit \/ CallerDrops \/ RunServer \/ Signal \/ QueueEnds
    \/ ProcessExits \/ Thread \/ LoopReturns

\* The thread's calls return, and the accept loop is polled.
Spec == Init /\ [][Next]_vars /\ WF_vars(Thread) /\ WF_vars(QueueEnds)

-----------------------------------------------------------------------------
(* What must hold.                                                         *)

\* Every variable has its type; the pair of ensure_tls_init is never shown.
TypeOK ==
    /\ given \in BOOLEAN
    /\ main \in {"idle", "serving", "returned", "exited"}
    /\ thread \in {"none", "read", "copy", "create", "retry", "createRetry", "bind", "loop"}
                    \cup Over
    /\ disk \in [Pair -> {"none", "bad", "good"}]
    /\ bytes \in {"none", "bad", "good"} /\ use \in Pair
    /\ presented \in {"none", "orig", "copy", "retry"} /\ fault \in BOOLEAN

\* The clients trust the certificate the caller named: another is shown only if
\* an operation failed, or what the thread read of the files was no good pair.
PresentsGiven ==
    presented = "retry" => fault \/ bytes # "good"

\* The pair run_server makes lives as long as the thread that may read it, however
\* that ends, and no longer; only the end of the process leaves it behind.
TemporariesLiveWithThread ==
    ~given /\ thread \notin {"none", "killed"} => (disk["orig"] # "none") = Running

\* A start that fails up to picoquic_create (a copy that cannot be made, no second
\* pair, a second try that fails) ends run_server.  Of what
\* fails later nothing is claimed: a packet loop that cannot bind its port
\* (BindFails) leaves run_server waiting for ever.
FailedCreateIsNoticed ==
    thread \in Over /\ presented = "none" ~> main # "serving"

\* Files that are invalid or gone do not keep the server from running its loop.
StartsAnyway ==
    thread = "read" ~> thread = "loop" \/ fault \/ thread = "killed"
=============================================================================
