------------------------------ MODULE Threads -------------------------------
(***************************************************************************)
(* ThreadManager (utils/ThreadManager.cpp), its MessageableThreads with    *)
(* their message queues (utils/MessageableThread.cpp, ThreadSafeQueue.h),  *)
(* the threads and reference counts beneath them (utils/MyThread.cpp), and *)
(* the web server's tree of them: a WebListenerThread, itself managed, has *)
(* a manager of its own for its WorkerThreads (webserver/).                *)
(*                                                                         *)
(* A block under one mutex is a step, but the loops of a manager that send *)
(* to its threads are one step for each access to a thread, with the       *)
(* manager's mutex held throughout.                                        *)
(***************************************************************************)
EXTENDS Integers, Sequences, FiniteSets

CONSTANTS Readers,      \* threads whose doRun dequeues, or calls waitForPeriod, until
                        \* a kill message comes
          Listener,     \* a WebListenerThread
          Workers,      \* its WorkerThreads
          Manager,      \* the program's ThreadManager
          WorkerManager,    \* the listener's thread_manager
          MaxMessages   \* bound: the most messages the program sends

(* Each thread is of one kind, and the listener's manager is its own.       *)
ASSUME ThreadsAssumption ==
    /\ Readers \cap Workers = {} /\ Listener \notin Readers \cup Workers
    /\ Manager # WorkerManager

Thread   == Readers \cup {Listener} \cup Workers
Managers == {Manager, WorkerManager}

(* mesthread_thread_manager.                                                *)
ManagerOf(t) == IF t \in Workers THEN WorkerManager ELSE Manager

VARIABLES threads,          \* per manager, its set of threads
          message_queue,    \* per thread, its mesthread_message_queue
          tpc,              \* per thread, where it is
          should_quit, m_sock,      \* per thread: its flag; the state of its socket
          references,       \* per thread, who holds a counted reference to it
          kpc,              \* per manager, where a call that sends is
          message,          \* per manager, what that call sends
          to_visit,         \* per manager, the threads its loop has yet to visit
          visiting,         \* per manager, those it is at: at most one
          threads_to_wait_on,
          messages,         \* history: how many calls the program made to send
          unmanaged         \* history: threads that were removed, or added after the
                            \* kill messages were sent

sockVars   == <<should_quit, m_sock>>
killVars   == <<kpc, message, to_visit, visiting, threads_to_wait_on, messages>>
threadVars == <<threads, message_queue, tpc, sockVars, references, killVars, unmanaged>>

InitThreads ==
    /\ threads = [m \in Managers |-> {}]
    /\ message_queue = [t \in Thread |-> <<>>]
    /\ tpc = [t \in Thread |-> "new"]
    /\ should_quit = [t \in Thread |-> FALSE]
    /\ m_sock = [t \in Thread |-> IF t \in Workers THEN "open" ELSE "none"]
    /\ references = [t \in Thread |-> IF t \in Workers THEN {} ELSE {"caller"}]
    /\ kpc = [m \in Managers |-> "idle"]
    /\ message = [m \in Managers |-> "none"]
    /\ to_visit = [m \in Managers |-> {}]
    /\ threads_to_wait_on = [m \in Managers |-> {}]
    /\ visiting = [m \in Managers |-> {}]
    /\ messages = 0 /\ unmanaged = {}

MutexFree(m) == kpc[m] \notin {"visit", "notify", "quit", "shut"}

Go(t, pc) == tpc' = [tpc EXCEPT ![t] = pc]

-----------------------------------------------------------------------------
(* Mutant of Launched: no reference is counted for the new thread.          *)
LaunchedUncounted(t, pcs) ==
    /\ tpc' = [pcs EXCEPT ![t] = IF t = Listener THEN "bind" ELSE "run"]
    /\ threads' = [threads EXCEPT ![ManagerOf(t)] = @ \cup {t}]
    /\ references' = [references EXCEPT ![t] = @ \cup {"set"}]

(* addThread(t), whose mutex the new thread needs before it can end; pcs is *)
(* where the other threads are then.  launch counts a reference for the     *)
(* thread itself before it creates it, and does not take it back if that    *)
(* fails.                                                                   *)
Launched(t, pcs) ==
    /\ tpc' = [pcs EXCEPT ![t] = IF t = Listener THEN "bind" ELSE "run"]
    /\ threads' = [threads EXCEPT ![ManagerOf(t)] = @ \cup {t}]
    /\ references' = [references EXCEPT ![t] = @ \cup {"set", "launch"}]
Add(t, pcs) ==
    /\ tpc[t] = "new" /\ MutexFree(ManagerOf(t))
    /\ \/ Launched(t, pcs)
       \/ /\ tpc' = [pcs EXCEPT ![t] = "failed"]
          /\ references' = [references EXCEPT ![t] = @ \cup {"launch"}]
          /\ UNCHANGED threads
    /\ unmanaged' = IF kpc[ManagerOf(t)] \in {"collect", "join"} THEN unmanaged \cup {t} ELSE unmanaged
    /\ UNCHANGED <<message_queue, sockVars, killVars>>

(* The program adds a thread, or removes one from those managed.            *)
AddThread(t) == t \notin Workers /\ kpc[Manager] # "returned" /\ Add(t, tpc)

RemoveThread(t) ==
    /\ t \in threads[Manager] /\ MutexFree(Manager) /\ kpc[Manager] # "returned"
    /\ threads' = [threads EXCEPT ![Manager] = @ \ {t}]
    /\ references' = [references EXCEPT ![t] = @ \ {"set"}]
    /\ unmanaged' = unmanaged \cup ({t} \ threads_to_wait_on[Manager])
    /\ UNCHANGED <<message_queue, tpc, sockVars, killVars>>

(* Whoever created the thread lets go of it.                                *)
CallerDrops(t) ==
    /\ tpc[t] # "new" /\ "caller" \in references[t]
    /\ references' = [references EXCEPT ![t] = @ \ {"caller"}]
    /\ UNCHANGED <<threads, message_queue, tpc, sockVars, killVars, unmanaged>>

-----------------------------------------------------------------------------
(* dequeue and dequeueWithTimeout, called by the thread itself: it sleeps   *)
(* while its queue is empty, and ends after a kill message.                 *)
DequeueMessage(t) ==
    /\ t \in Readers /\ tpc[t] = "run"
    /\ IF message_queue[t] = <<>> THEN Go(t, "asleep") /\ UNCHANGED message_queue
       ELSE /\ message_queue' = [message_queue EXCEPT ![t] = Tail(@)]
            /\ Go(t, IF Head(message_queue[t]) = "kill" THEN "finish" ELSE "run")
    /\ UNCHANGED <<threads, sockVars, references, killVars, unmanaged>>

(* A step of thread t alone, from one place to another.                     *)
Moves(t, from, to) ==
    /\ tpc[t] = from /\ Go(t, to)
    /\ UNCHANGED <<threads, message_queue, sockVars, references, killVars, unmanaged>>

(* A spurious wakeup; a timeout, after which waitForPeriod is called again, *)
(* also when a message has come in the meantime.                            *)
WakeUp(t) == Moves(t, "asleep", "run")

(* WebListenerThread::doRun: bind, in at most 600 attempts, unless          *)
(* should_quit; then accept connections until should_quit, and kill the     *)
(* workers.                                                                 *)
Bind(t) ==
    /\ tpc[t] = "bind"
    /\ \/ ~should_quit[t] /\ Go(t, "run") /\ m_sock' = [m_sock EXCEPT ![t] = "open"]
       \/ Go(t, "kill") /\ UNCHANGED m_sock
    /\ UNCHANGED <<threads, message_queue, should_quit, references, killVars, unmanaged>>

(* The flag is read before each accept, and before each read of a worker.   *)
CheckQuit(t) ==
    /\ t \in {Listener} \cup Workers
    /\ Moves(t, "run", IF ~should_quit[t] THEN "block"
                       ELSE IF t = Listener THEN "kill" ELSE "close")

(* accept and read throw once the socket was shut down; the listener's loop *)
(* then goes back to should_quit.                                           *)
SocketShut(t) ==
    m_sock[t] = "shut" /\ Moves(t, "block", IF t = Listener THEN "run" ELSE "close")

(* A connection comes, and gets a worker; the listener keeps no reference.  *)
Accept(w) == tpc[Listener] = "block" /\ Add(w, [tpc EXCEPT ![Listener] = "run"])

(* A worker has served a request, or its client has closed the connection;  *)
(* in the end it lets go of its socket.                                     *)
Serve(t) == t \in Workers /\ (Moves(t, "block", "run") \/ Moves(t, "block", "close"))

Close(t) ==
    /\ tpc[t] = "close" /\ Go(t, "finish")
    /\ m_sock' = [m_sock EXCEPT ![t] = "none"]
    /\ UNCHANGED <<threads, message_queue, should_quit, references, killVars, unmanaged>>

WorkersKilled(t) == kpc[WorkerManager] = "returned" /\ Moves(t, "kill", "finish")

(* threadFinished.                                                          *)
Finish(t) ==
    /\ tpc[t] = "finish" /\ Go(t, "exit")
    /\ MutexFree(ManagerOf(t))
    /\ threads' = [threads EXCEPT ![ManagerOf(t)] = @ \ {t}]
    /\ references' = [references EXCEPT ![t] = @ \ {"set"}]
    /\ UNCHANGED <<message_queue, sockVars, killVars, unmanaged>>

(* The end of threadFunction: whoever drops the last reference destroys the *)
(* MyThread.                                                                *)
Exit(t) ==
    /\ tpc[t] = "exit" /\ Go(t, "done")
    /\ references' = [references EXCEPT ![t] = @ \ {"launch"}]
    /\ UNCHANGED <<threads, message_queue, sockVars, killVars, unmanaged>>

-----------------------------------------------------------------------------
(* enqueueMessage, killThreadsNonBlocking ("stop"), killThreadsBlocking     *)
(* ("kill"): called by the program, or at the end of a listener's doRun.    *)
Send(m, s) ==
    /\ kpc[m] = "idle"
    /\ IF m = Manager
       THEN s = "kill" \/ messages < MaxMessages
       ELSE s = "kill" /\ tpc[Listener] = "kill"
    /\ messages' = IF s = "kill" THEN messages ELSE messages + 1
    /\ message' = [message EXCEPT ![m] = s]
    /\ to_visit' = [to_visit EXCEPT ![m] = threads[m]]
    /\ kpc' = [kpc EXCEPT ![m] = "visit"]
    /\ UNCHANGED <<threads, message_queue, tpc, sockVars, references, visiting,
                   threads_to_wait_on, unmanaged>>

(* The loop: a thread's queue gets the message (the queues of the web       *)
(* server's threads, which nothing reads, are not followed),                *)
Visit(m) ==
    /\ kpc[m] = "visit"
    /\ \/ \E t \in to_visit[m] :
            /\ message_queue' =
                 IF t \notin Readers THEN message_queue
                 ELSE [message_queue EXCEPT
                        ![t] = Append(@, IF message[m] = "message" THEN "message" ELSE "kill")]
            /\ visiting' = [visiting EXCEPT ![m] = {t}]
            /\ to_visit' = [to_visit EXCEPT ![m] = @ \ {t}]
            /\ kpc' = [kpc EXCEPT ![m] = "notify"]
       \/ /\ to_visit[m] = {}
          /\ kpc' = [kpc EXCEPT ![m] = IF message[m] = "kill" THEN "collect" ELSE "idle"]
          /\ visiting' = [visiting EXCEPT ![m] = {}]
          /\ UNCHANGED <<message_queue, to_visit>>
    /\ UNCHANGED <<threads, tpc, sockVars, references, message, threads_to_wait_on, messages,
                   unmanaged>>


(* then the thread is woken, and its kill() called, which is empty but for  *)
(* the web server's threads:                                                *)
Notify(m) ==
    /\ kpc[m] = "notify"
    /\ tpc' = [t \in Thread |-> IF t \in visiting[m] /\ tpc[t] = "asleep" THEN "run" ELSE tpc[t]]
    /\ kpc' = [kpc EXCEPT ![m] = IF message[m] = "message" \/ visiting[m] \subseteq Readers
                                 THEN "visit" ELSE "quit"]
    /\ UNCHANGED <<threads, message_queue, sockVars, references, message, to_visit,
                   visiting, threads_to_wait_on, messages, unmanaged>>

(* should_quit first,                                                       *)
Quit(m) ==
    /\ kpc[m] = "quit"
    /\ should_quit' = [t \in Thread |-> t \in visiting[m] \/ should_quit[t]]
    /\ kpc' = [kpc EXCEPT ![m] = "shut"]
    /\ UNCHANGED <<threads, message_queue, tpc, m_sock, references, message, to_visit,
                   visiting, threads_to_wait_on, messages, unmanaged>>

(* then ungracefulShutdown of the socket, if there is one at that moment.   *)
Shut(m) ==
    /\ kpc[m] = "shut"
    /\ m_sock' = [t \in Thread |-> IF t \in visiting[m] /\ m_sock[t] = "open" THEN "shut" ELSE m_sock[t]]
    /\ kpc' = [kpc EXCEPT ![m] = "visit"]
    /\ UNCHANGED <<threads, message_queue, tpc, should_quit, references, message, to_visit,
                   visiting, threads_to_wait_on, messages, unmanaged>>

(* killThreadsBlocking goes on to count references to the threads that are  *)
(* managed then, and joins them.                                            *)
Collect(m) ==
    /\ kpc[m] = "collect"
    /\ threads_to_wait_on' = [threads_to_wait_on EXCEPT ![m] = threads[m]]
    /\ references' = [t \in Thread |-> IF t \in threads[m] THEN references[t] \cup {"wait"}
                                       ELSE references[t]]
    /\ kpc' = [kpc EXCEPT ![m] = "join"]
    /\ UNCHANGED <<threads, message_queue, tpc, sockVars, message, to_visit, visiting,
                   messages, unmanaged>>

(* Mutant of Join: one thread's end is enough.                              *)
JoinOne(m) ==
    /\ kpc[m] = "join"
    /\ threads_to_wait_on[m] = {} \/ \E t \in threads_to_wait_on[m] : tpc[t] = "done"
    /\ references' = [t \in Thread |-> IF t \in threads_to_wait_on[m]
                                       THEN references[t] \ {"wait"} ELSE references[t]]
    /\ kpc' = [kpc EXCEPT ![m] = "returned"]
    /\ UNCHANGED <<threads, message_queue, tpc, sockVars, message, to_visit, visiting,
                   threads_to_wait_on, messages, unmanaged>>

Join(m) ==
    /\ kpc[m] = "join"
    /\ \A t \in threads_to_wait_on[m] : tpc[t] = "done"
    /\ references' = [t \in Thread |-> IF t \in threads_to_wait_on[m]
                                       THEN references[t] \ {"wait"} ELSE references[t]]
    /\ kpc' = [kpc EXCEPT ![m] = "returned"]
    /\ UNCHANGED <<threads, message_queue, tpc, sockVars, message, to_visit, visiting,
                   threads_to_wait_on, messages, unmanaged>>

-----------------------------------------------------------------------------
(* What a thread, and a call that sends, go on to do by themselves; what    *)
(* the program, its clients and the clock may do.                           *)
ThreadStep(t) ==
    DequeueMessage(t) \/ Bind(t) \/ CheckQuit(t) \/ SocketShut(t) \/ Close(t) \/ WorkersKilled(t)
    \/ Finish(t) \/ Exit(t)
SenderStep(m) == Visit(m) \/ Notify(m) \/ Quit(m) \/ Shut(m) \/ Collect(m) \/ Join(m)

Outside ==
    \/ \E t \in Thread : AddThread(t) \/ RemoveThread(t) \/ CallerDrops(t) \/ WakeUp(t) \/ Serve(t)
    \/ \E w \in Workers : Accept(w)
    \/ \E s \in {"message", "stop", "kill"} : Send(Manager, s)

NextThreads ==
    \/ \E t \in Thread : ThreadStep(t)
    \/ Send(WorkerManager, "kill")
    \/ \E m \in Managers : SenderStep(m)
    \/ Outside

(* Threads keep getting the processor.                                      *)
FairThreads ==
    /\ \A t \in Thread : WF_threadVars(ThreadStep(t))
    /\ WF_threadVars(Send(WorkerManager, "kill"))
    /\ \A m \in Managers : WF_threadVars(SenderStep(m))

SpecThreads == InitThreads /\ [][NextThreads]_threadVars /\ FairThreads

-----------------------------------------------------------------------------
(* The object of a thread is there as long as the thread runs, and as long  *)
(* as a call visits it or is about to join it, whoever drops references.    *)
ObjectsInUseExist ==
    /\ \A t \in Thread : tpc[t] \notin {"new", "failed", "done"} => references[t] # {}
    /\ \A m \in Managers :
         /\ kpc[m] = "join" => \A t \in threads_to_wait_on[m] : references[t] # {}
         /\ ~MutexFree(m) => \A t \in to_visit[m] \cup visiting[m] : references[t] # {}

(* "Send a kill message to all the managed threads, then blocks until all   *)
(* the threads have completed": when killThreadsBlocking returns, no doRun  *)
(* of a thread that was managed when it sent the messages goes on, and none *)
(* of a worker of such a listener.                                          *)
KilledThreadsAreOver ==
    \A m \in Managers : kpc[m] = "returned" =>
        \A t \in Thread \ unmanaged :
            ManagerOf(t) = m \/ (m = Manager /\ Listener \notin unmanaged)
            => tpc[t] \in {"new", "failed", "exit", "done"}

=============================================================================
