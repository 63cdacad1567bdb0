--------------------------- MODULE GatewayManager ---------------------------
(***************************************************************************)
(* The Gateway Manager (gateway-manager/app/services/nginx_manager.py):    *)
(* worker threads that each run apply(), the managed directory, and the    *)
(* one central nginx that reads the whole directory.                       *)
(*                                                                         *)
(* A managed file is the domains and upstreams it was rendered from.       *)
(* nginx -t rejects the directory when any file in it names a domain whose *)
(* certificate cannot be read.                                             *)
(***************************************************************************)
EXTENDS Naturals

CONSTANTS
    Apps,
    Workers,        \* threads of the /reload route
    DomainSets,     \* the domains an application may have
    Upstreams,
    CertsChange,    \* whether certificate files come and go
    DiskFails,      \* whether a managed file may be impossible to read or write
    Crashes         \* whether the container may be restarted

ASSUME GatewayConstants ==
    /\ {CertsChange, DiskFails, Crashes} \subseteq BOOLEAN
    /\ {} \in DomainSets
    /\ "nobody" \notin Workers

VARIABLES
    disk,       \* the managed file of each application
    loaded,     \* what nginx serves for each application
    hup,        \* whether nginx has a reload signal it has yet to act on
    noCert,     \* domains whose certificate nginx cannot read
    up,         \* whether the container runs
    holder,     \* who has _apply_lock
    work,       \* the apply() call of each worker
    disturbed   \* history, read by no action: nginx last read the directory amid a
                \* write that could still be undone, or found it invalid; or a
                \* write could not be undone

gatewayVars == <<disk, loaded, hup, noCert, up, holder, work, disturbed>>

Absent == [domains |-> {}, upstreams |-> {}]

Domains == UNION DomainSets

Payloads == [domains : DomainSets, upstreams : SUBSET Upstreams]

\* render: None, hence no file, without a domain or without an upstream.
Render(p) == IF p.domains = {} \/ p.upstreams = {} THEN Absent ELSE p

Files == {Render(p) : p \in Payloads}

NoWorker == "nobody"

Idle == [pc |-> "idle"]

Valid(dir) == \A a \in Apps : dir[a].domains \cap noCert = {}

Steps == {"waiting", "write", "test", "undo_test", "reload", "undo_reload",
          "retest", "answer"}

\* The thread has written its file and may yet restore the previous one.
Unsettled(w) == work[w].pc \in {"test", "undo_test", "reload", "undo_reload"}

GatewayTypeOK ==
    /\ disk \in [Apps -> Files]
    /\ loaded \in [Apps -> Files]
    /\ hup \in BOOLEAN
    /\ noCert \subseteq Domains
    /\ up \in BOOLEAN
    /\ holder \in Workers \cup {NoWorker}
    /\ work \in [Workers ->
          {Idle} \cup [pc : Steps, app : Apps, new : Files, old : Files, ok : BOOLEAN]]
    /\ disturbed \in BOOLEAN

GatewayInit ==
    /\ disk = [a \in Apps |-> Absent]
    /\ loaded = disk
    /\ hup = FALSE
    /\ noCert \in SUBSET Domains
    /\ up = TRUE
    /\ holder = NoWorker
    /\ work = [w \in Workers |-> Idle]
    /\ disturbed = FALSE

----------------------------------------------------------------------------

\* POST /reload reaches a worker thread.
Request(w) ==
    /\ up
    /\ work[w] = Idle
    /\ \E a \in Apps, p \in Payloads :
          work' = [work EXCEPT ![w] = [pc |-> "waiting", app |-> a, new |-> Render(p),
                                       old |-> Absent, ok |-> FALSE]]
    /\ UNCHANGED <<disk, loaded, hup, noCert, up, holder, disturbed>>

\* Faulty variant: apply() without _apply_lock.
EnterWithoutLock(w) ==
    /\ up
    /\ work[w].pc = "waiting"
    /\ holder' = w
    /\ work' = [work EXCEPT ![w].pc = "write", ![w].old = disk[work[w].app]]
    /\ UNCHANGED <<disk, loaded, hup, noCert, up, disturbed>>

\* The lock is taken and the previous content read.
Enter(w) ==
    /\ up
    /\ work[w].pc = "waiting"
    /\ holder = NoWorker
    /\ holder' = w
    /\ work' = [work EXCEPT ![w].pc = "write", ![w].old = disk[work[w].app]]
    /\ UNCHANGED <<disk, loaded, hup, noCert, up, disturbed>>

\* _write_or_remove of the new content: os.replace is atomic.
Write(w) ==
    /\ up
    /\ work[w].pc = "write"
    /\ disk' = [disk EXCEPT ![work[w].app] = work[w].new]
    /\ work' = [work EXCEPT ![w].pc = "test"]
    /\ UNCHANGED <<loaded, hup, noCert, up, holder, disturbed>>

\* The file can be neither read nor written: the OSError leaves apply(), which
\* gives up the lock, with the directory as it was.
WriteRaises(w) ==
    /\ up /\ DiskFails
    /\ work[w].pc = "write"
    /\ work' = [work EXCEPT ![w] = Idle]
    /\ holder' = NoWorker
    /\ UNCHANGED <<disk, loaded, hup, noCert, up, disturbed>>

\* validate(): fails on an invalid directory, or because it could not be run
\* or took too long.
Test(w) ==
    /\ up
    /\ work[w].pc = "test"
    /\ \/ Valid(disk) /\ work' = [work EXCEPT ![w].pc = "reload"]
       \/ work' = [work EXCEPT ![w].pc = "undo_test"]
    /\ UNCHANGED <<disk, loaded, hup, noCert, up, holder, disturbed>>

\* Faulty variant: the rejected file stays.
RestoreNothing(w) ==
    /\ up
    /\ work[w].pc \in {"undo_test", "undo_reload"}
    /\ work' = [work EXCEPT ![w].pc = IF @ = "undo_test" THEN "answer" ELSE "retest"]
    /\ UNCHANGED <<disk, loaded, hup, noCert, up, holder, disturbed>>

\* _write_or_remove of the previous content.
Restore(w) ==
    /\ up
    /\ work[w].pc \in {"undo_test", "undo_reload"}
    /\ disk' = [disk EXCEPT ![work[w].app] = work[w].old]
    /\ work' = [work EXCEPT ![w].pc = IF @ = "undo_test" THEN "answer" ELSE "retest"]
    /\ UNCHANGED <<loaded, hup, noCert, up, holder, disturbed>>

\* The OSError of the second _write_or_remove: the new file stays.
RestoreRaises(w) ==
    /\ up /\ DiskFails
    /\ work[w].pc \in {"undo_test", "undo_reload"}
    /\ work' = [work EXCEPT ![w] = Idle]
    /\ holder' = NoWorker
    /\ disturbed' = TRUE
    /\ UNCHANGED <<disk, loaded, hup, noCert, up>>

\* Faulty variant: a failed reload is taken for a successful one.
ReloadIgnoringFailure(w) ==
    /\ up
    /\ work[w].pc = "reload"
    /\ work' = [work EXCEPT ![w].pc = "answer", ![w].ok = TRUE]
    /\ (hup' = hup) \/ (Valid(disk) /\ hup' = TRUE)
    /\ UNCHANGED <<disk, loaded, noCert, up, holder, disturbed>>

\* nginx -s reload checks the files, signals the master and returns at once; or
\* fails, or is killed by its timeout, before or after the signal.
Reload(w) ==
    /\ up
    /\ work[w].pc = "reload"
    /\ \/ /\ Valid(disk)
          /\ work' = [work EXCEPT ![w].pc = "answer", ![w].ok = TRUE]
          /\ hup' = TRUE
       \/ /\ work' = [work EXCEPT ![w].pc = "undo_reload"]
          /\ (hup' = hup) \/ (Valid(disk) /\ hup' = TRUE)
    /\ UNCHANGED <<disk, loaded, noCert, up, holder, disturbed>>

\* The best-effort validate() whose answer nobody reads.
Retest(w) ==
    /\ up
    /\ work[w].pc = "retest"
    /\ work' = [work EXCEPT ![w].pc = "answer"]
    /\ UNCHANGED <<disk, loaded, hup, noCert, up, holder, disturbed>>

\* Faulty variant: a refused configuration returns without giving up the lock.
ReturnKeepingLock(w) ==
    /\ up
    /\ work[w].pc = "answer"
    /\ work' = [work EXCEPT ![w] = Idle]
    /\ holder' = IF work[w].ok THEN NoWorker ELSE holder
    /\ UNCHANGED <<disk, loaded, hup, noCert, up, disturbed>>

\* apply() returns: the with block gives up the lock.
Return(w) ==
    /\ up
    /\ work[w].pc = "answer"
    /\ work' = [work EXCEPT ![w] = Idle]
    /\ holder' = NoWorker
    /\ UNCHANGED <<disk, loaded, hup, noCert, up, disturbed>>

Apply(w) ==
    \/ Enter(w) \/ Write(w) \/ WriteRaises(w) \/ Test(w) \/ Reload(w)
    \/ Restore(w) \/ RestoreRaises(w) \/ Retest(w) \/ Return(w)

----------------------------------------------------------------------------
(* nginx, the certificate files, and the container.                        *)

\* The master acts on the signal, whatever the threads have made of the files
\* since; it keeps its configuration when they are not valid.
MasterReload ==
    /\ up /\ hup
    /\ hup' = FALSE
    /\ loaded' = IF Valid(disk) THEN disk ELSE loaded
    /\ disturbed' = (~Valid(disk) \/ \E w \in Workers : Unsettled(w))
    /\ UNCHANGED <<disk, noCert, up, holder, work>>

ChangeCert(d) ==
    /\ CertsChange
    /\ noCert' = IF d \in noCert THEN noCert \ {d} ELSE noCert \cup {d}
    /\ UNCHANGED <<disk, loaded, hup, up, holder, work, disturbed>>

\* The container stops, nginx included.
ContainerDies ==
    /\ Crashes /\ up
    /\ up' = FALSE
    /\ hup' = FALSE
    /\ holder' = NoWorker
    /\ work' = [w \in Workers |-> Idle]
    /\ UNCHANGED <<disk, loaded, noCert, disturbed>>

\* docker-entrypoint.sh: nginx -t must pass, then nginx loads the directory.
Start ==
    /\ ~up
    /\ Valid(disk)
    /\ up' = TRUE
    /\ loaded' = disk
    /\ disturbed' = FALSE
    /\ UNCHANGED <<disk, hup, noCert, holder, work>>

GatewayNext ==
    \/ \E w \in Workers : Request(w) \/ Apply(w)
    \/ \E d \in Domains : ChangeCert(d)
    \/ MasterReload \/ ContainerDies \/ Start

GatewaySpec == GatewayInit /\ [][GatewayNext]_gatewayVars

\* Every subprocess has a timeout, so a thread that entered apply() goes on; the
\* master handles its signals.
GatewayFairSpec ==
    /\ GatewaySpec
    /\ \A w \in Workers : WF_gatewayVars(Apply(w))
    /\ WF_gatewayVars(MasterReload)

----------------------------------------------------------------------------

\* Once nothing is in progress nginx serves exactly what is on disk, whatever was
\* rejected, failed or restarted on the way.  The only ways out of sync are those
\* of disturbed: nginx read the directory amid a write that was then undone, it
\* refused the directory, or the previous file could not be written back.
InSyncUnlessDisturbed ==
    up /\ holder = NoWorker /\ ~hup /\ ~disturbed => disk = loaded

\* "Without this, ... app A's validated-and-about-to-reload config could pick up
\* app B's just-written, not-yet-validated file": nginx does not read the managed
\* directory while a file in it has been written and not yet validated.  A thread
\* that waited for the lock writes before nginx has acted on the signal of the
\* thread that had it, so this does not hold.
UnvalidatedIsNotRead ==
    [][MasterReload => \A w \in Workers : work[w].pc # "test"]_gatewayVars

\* The lock is given up on every path through apply().
LockIsReleased == holder # NoWorker ~> holder = NoWorker

\* "One application's bad config can never replace another application's (or
\* its own last) working configuration": when the container is stopped, its
\* managed directory still is one that nginx accepts, so it can start again.
StoppedCanStart == ~up => Valid(disk)

\* The directory without the write that may yet be undone.
Committed ==
    [a \in Apps |->
        IF holder # NoWorker /\ Unsettled(holder) /\ work[holder].app = a
        THEN work[holder].old ELSE disk[a]]

Answered(call) ==
    IF call = Idle THEN Idle
    ELSE [app    |-> call.app,
          entry  |-> call.new,
          answer |-> IF call.ok THEN "ok"
                     ELSE IF call.pc \in {"retest", "answer"} THEN "failed" ELSE "none"]

Requested == [w \in Workers |-> Answered(work[w])]

\* The promise about the managed directory: each request replaces its own
\* application's file as a whole and is answered ok, or leaves it as it was and is
\* answered not ok, however requests for one application or for several overlap;
\* only a request that is cut short, by a restart or an OSError, may do either.
Table == INSTANCE RoutingTable WITH
    Entries <- Files, routed <- Committed, request <- Requested

ImplementsTable == Table!Spec
============================================================================
