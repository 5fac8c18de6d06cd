----------------------------- MODULE PromptQueue ------------------------------
(***************************************************************************)
(* The composer's queue of prompts in the web client, for one session:     *)
(* sendPrompt, dispatchPrompt, flushNext, the turn timer and the offline   *)
(* outbox of RelayClient (apps/web/src/lib/relay-client.ts, outbox.ts).    *)
(*                                                                         *)
(* A prompt composed during a turn or without a connection is queued, and  *)
(* written to IndexedDB without waiting for it; it is dispatched when the  *)
(* turn settles, on reconnect, or when a new page has read the outbox.     *)
(* Dispatching takes it from the queue, and only then encrypts it, which   *)
(* takes an await, and sends it if the socket is open by then.             *)
(*                                                                         *)
(* Prompts are 1, 2, ... in the order of queuedAt.  The pages of one       *)
(* account share the database.  A page may be reloaded at any point.       *)
(***************************************************************************)
EXTENDS Integers, Sequences, FiniteSets, SequencesExt

CONSTANTS Pages,       \* RelayClients of one account in one browser
          MaxPrompts,  \* bound: prompts composed
          MaxFaults    \* bound: reloads, lost connections, calls the database refuses

ASSUME QueueAssumption ==
  /\ IsFiniteSet(Pages)
  /\ MaxPrompts \in Nat
  /\ MaxFaults \in Nat

Prompts == 1..MaxPrompts
None == 0

VARIABLES
  composed,    \* how many prompts have been composed
  queue,       \* per page: the session's queuedPrompts
  timer,       \* per page: turnTimers has the session
  pending,     \* per page: the session's pendingPromptInjects
  sock,        \* per page: "down", "open" (not initialized yet) or "ready"
  hydration,   \* per page: "list", "merge" (list has resolved) or "done"
  listed,      \* per page: what list() returned
  sealing,     \* per page: prompts being encrypted
  ops,         \* per page: puts and deletes the database has not done yet
  store,       \* the database
  waited,      \* history: prompts that enqueuePrompt took
  dispatched,  \* history: prompts in the order of dispatchPrompt
  sent,        \* history: prompts in the order of socket.send
  early,       \* history: a prompt was dispatched before the outbox was in the queue
  missed,      \* history: calls ("put", "delete", "list", "seal", "send") that failed or a reload cut
  faults

page == <<queue, timer, pending, sock, hydration, listed, sealing, ops>>
history == <<composed, waited, dispatched, sent, early, missed, faults>>
vars == <<page, store, history>>

Set(f, t, v) == f' = [f EXCEPT ![t] = v]

Put(p) == [op |-> "put", prompt |-> p]
Delete(p) == [op |-> "delete", prompt |-> p]

Fault == faults < MaxFaults /\ faults' = faults + 1

\* The database after a put or a delete.
After(s, o) == IF o.op = "put" THEN s \cup {o.prompt} ELSE s \ {o.prompt}

\* The database after a series of them: what was there or has been put, and was not
\* deleted after that.
AfterAll(s, o) ==
  LET Stays(p, k) == \A i \in DOMAIN o : i > k => o[i] # Delete(p)
  IN {p \in s : Stays(p, 0)}
     \cup {p \in Prompts : \E k \in DOMAIN o : o[k] = Put(p) /\ Stays(p, k)}

\* A set of numbers as an ascending sequence.
InOrder(S) ==
  [n \in 1..Cardinality(S) |-> CHOOSE x \in S : Cardinality({y \in S : y <= x}) = n]

\* removeFromQueue: the filter.
Without(q, p) ==
  LET kept == InOrder({i \in DOMAIN q : q[i] # p})
  IN [n \in DOMAIN kept |-> q[kept[n]]]

\* A dispatch now, with the queue at q, comes before the prompts of the outbox are in
\* the queue.
BeforeOutbox(t, q) == hydration[t] = "list" \/ ~(listed[t] \subseteq ToSet(q))

-----------------------------------------------------------------------------
Init ==
  /\ composed = 0
  /\ queue = [t \in Pages |-> <<>>]
  /\ timer = [t \in Pages |-> FALSE]
  /\ pending = [t \in Pages |-> None]
  /\ sock = [t \in Pages |-> "down"]
  /\ hydration = [t \in Pages |-> "list"]
  /\ listed = [t \in Pages |-> {}]
  /\ sealing = [t \in Pages |-> {}]
  /\ ops = [t \in Pages |-> <<>>]
  /\ store = {}
  /\ waited = {}
  /\ dispatched = <<>>
  /\ sent = <<>>
  /\ early = FALSE
  /\ missed = {}
  /\ faults = 0

\* Mutant: the prompt stays in the outbox when it is dispatched.
DispatchPromptMutant(t, p, q) ==
  /\ Set(queue, t, Without(q, p))
  /\ UNCHANGED ops
  /\ Set(pending, t, p)
  /\ Set(sealing, t, sealing[t] \cup {p})
  /\ Set(timer, t, TRUE)
  /\ dispatched' = Append(dispatched, p)
  /\ early' = (early \/ BeforeOutbox(t, q))

\* dispatchPrompt(p), with the session's queue at q.
DispatchPrompt(t, p, q) ==
  /\ Set(queue, t, Without(q, p))
  /\ IF Contains(q, p) THEN Set(ops, t, Append(ops[t], Delete(p))) ELSE UNCHANGED ops
  /\ Set(pending, t, p)
  /\ Set(sealing, t, sealing[t] \cup {p})
  /\ Set(timer, t, TRUE)
  /\ dispatched' = Append(dispatched, p)
  /\ early' = (early \/ BeforeOutbox(t, q))

\* Mutant: a queued prompt is not written to the outbox.
SendPromptMutant(t) ==
  LET p == composed + 1
  IN /\ p \in Prompts
     /\ composed' = p
     /\ IF queue[t] # <<>> \/ timer[t] \/ sock[t] = "down"
        THEN /\ Set(queue, t, Append(queue[t], p))
             /\ waited' = waited \cup {p}
             /\ UNCHANGED <<ops, pending, sealing, timer, dispatched, early>>
        ELSE DispatchPrompt(t, p, queue[t]) /\ UNCHANGED waited
     /\ UNCHANGED <<sock, hydration, listed, store, sent, missed, faults>>

\* sendPrompt: enqueuePrompt behind other prompts, during a turn or without an
\* open socket; dispatchPrompt otherwise.
SendPrompt(t) ==
  LET p == composed + 1
  IN /\ p \in Prompts
     /\ composed' = p
     /\ IF queue[t] # <<>> \/ timer[t] \/ sock[t] = "down"
        THEN /\ Set(queue, t, Append(queue[t], p))
             /\ Set(ops, t, Append(ops[t], Put(p)))
             /\ waited' = waited \cup {p}
             /\ UNCHANGED <<pending, sealing, timer, dispatched, early>>
        ELSE DispatchPrompt(t, p, queue[t]) /\ UNCHANGED waited
     /\ UNCHANGED <<sock, hydration, listed, store, sent, missed, faults>>

\* flushNext, with the session's queue at q and its turn active or not: the oldest
\* prompt is dispatched if the socket (now s) is open and no turn is active.
FlushNext(t, q, active, s) ==
  IF active \/ s = "down" \/ q = <<>>
  THEN /\ Set(queue, t, q)
       /\ Set(timer, t, active)
       /\ UNCHANGED <<ops, sealing, dispatched, early>>
  ELSE DispatchPrompt(t, Head(q), q)

\* settleTurnNow and onTurnSettled.
SettleTurn(t) == FlushNext(t, queue[t], FALSE, sock[t])

\* DispatchPrompt overwrites the pending prompt; a flush that dispatches nothing
\* leaves it at v.
PendingIs(t, v) == dispatched' = dispatched => Set(pending, t, v)

-----------------------------------------------------------------------------
\* The idle timer fires.
IdleTimeout(t) ==
  /\ timer[t]
  /\ SettleTurn(t) /\ PendingIs(t, pending[t])
  /\ UNCHANGED <<sock, hydration, listed, store, composed, waited, sent, missed, faults>>

\* A decrypted turn_ended is applied, or interruptTurn is called.
TurnEnded(t) ==
  /\ SettleTurn(t) /\ PendingIs(t, pending[t])
  /\ UNCHANGED <<sock, hydration, listed, store, composed, waited, sent, missed, faults>>

\* Any other decrypted session_update is applied: markTurnActive.
UpdateApplied(t) ==
  /\ Set(timer, t, TRUE)
  /\ UNCHANGED <<queue, pending, sock, hydration, listed, sealing, ops, store, history>>

\* handlePromptInjectResult: ok, or an error, which settles the turn.
PromptInjectResult(t) ==
  /\ pending[t] # None
  /\ sock[t] = "ready"
  /\ \/ /\ Set(pending, t, None)
        /\ UNCHANGED <<queue, timer, ops, sealing, dispatched, early>>
     \/ SettleTurn(t) /\ PendingIs(t, None)
  /\ UNCHANGED <<sock, hydration, listed, store, composed, waited, sent, missed, faults>>

\* encryptAndSendPrompt after its await: send() drops the frame without a socket.  If
\* seal() rejects, that is logged.
Sealed(t) ==
  /\ \E p \in sealing[t] :
       /\ Set(sealing, t, sealing[t] \ {p})
       /\ \/ sock[t] # "down" /\ sent' = Append(sent, p) /\ UNCHANGED <<missed, faults>>
          \/ sock[t] = "down" /\ missed' = missed \cup {"send"} /\ UNCHANGED <<sent, faults>>
          \/ Fault /\ missed' = missed \cup {"seal"} /\ UNCHANGED sent
  /\ UNCHANGED <<queue, timer, pending, sock, hydration, listed, ops, store>>
  /\ UNCHANGED <<composed, waited, dispatched, early>>

\* The socket's 'open' event: initialize is sent.
SocketOpens(t) ==
  /\ sock[t] = "down"
  /\ Set(sock, t, "open")
  /\ UNCHANGED <<queue, timer, pending, hydration, listed, sealing, ops, store, history>>

\* Mutant: a reconnect does not look at the queue.
InitializeResultMutant(t) ==
  /\ sock[t] = "open"
  /\ Set(sock, t, "ready")
  /\ UNCHANGED <<queue, timer, pending, hydration, listed, sealing, ops, store, history>>

\* initialize_result: flushOutboxOnReconnect.
InitializeResult(t) ==
  /\ sock[t] = "open"
  /\ Set(sock, t, "ready")
  /\ FlushNext(t, queue[t], timer[t], "ready") /\ PendingIs(t, pending[t])
  /\ UNCHANGED <<hydration, listed, store, composed, waited, sent, missed, faults>>

\* onSocketGone: clearAllTurnTimers.
SocketGone(t) ==
  /\ sock[t] # "down"
  /\ Fault
  /\ Set(sock, t, "down")
  /\ Set(timer, t, FALSE)
  /\ UNCHANGED <<queue, pending, hydration, listed, sealing, ops, store>>
  /\ UNCHANGED <<composed, waited, dispatched, sent, early, missed>>

\* The database does the page's oldest write, or rejects it, which is logged.  It
\* takes a page's calls in order, and list() was the first.
StorageWrite(t) ==
  /\ ops[t] # <<>>
  /\ hydration[t] # "list"
  /\ Set(ops, t, Tail(ops[t]))
  /\ \/ store' = After(store, Head(ops[t])) /\ UNCHANGED <<missed, faults>>
     \/ Fault /\ missed' = missed \cup {Head(ops[t]).op} /\ UNCHANGED store
  /\ UNCHANGED <<queue, timer, pending, sock, hydration, listed, sealing>>
  /\ UNCHANGED <<composed, waited, dispatched, sent, early>>

\* hydrateOutbox: list() reads the database, or rejects.
HydrateList(t) ==
  /\ hydration[t] = "list"
  /\ \/ Set(hydration, t, "merge") /\ Set(listed, t, store)
        /\ UNCHANGED <<missed, faults>>
     \/ Fault /\ Set(hydration, t, "done") /\ missed' = missed \cup {"list"}
        /\ UNCHANGED listed
  /\ UNCHANGED <<queue, timer, pending, sock, sealing, ops, store>>
  /\ UNCHANGED <<composed, waited, dispatched, sent, early>>

\* Mutant: what has been read is put behind what was composed meanwhile.
MergedMutant(t) == queue[t] \o InOrder(listed[t] \ ToSet(queue[t]))

\* What has been read and what was composed meanwhile, by queuedAt.
Merged(t) == InOrder(ToSet(queue[t]) \cup listed[t])

\* hydrateOutbox: merge and flush.
HydrateMerge(t) ==
  /\ hydration[t] = "merge"
  /\ Set(hydration, t, "done")
  /\ Set(listed, t, {})
  /\ IF listed[t] = {}
     THEN UNCHANGED <<queue, timer, pending, sealing, ops, dispatched, early>>
     ELSE /\ FlushNext(t, Merged(t), timer[t], sock[t])
          /\ PendingIs(t, pending[t])
  /\ UNCHANGED <<sock, store, composed, waited, sent, missed, faults>>

\* What a reload cuts short, as an element of missed.
Cut(call) == "cut " \o call

\* The page is reloaded: some of its writes take effect, the rest is lost, and a new
\* RelayClient is made.
Reload(t) ==
  /\ Fault
  /\ \E n \in 0..(IF hydration[t] = "list" THEN 0 ELSE Len(ops[t])) :
       /\ store' = AfterAll(store, SubSeq(ops[t], 1, n))
       /\ missed' = missed \cup {Cut(ops[t][k].op) : k \in n + 1..Len(ops[t])}
                            \cup {Cut("seal") : p \in sealing[t]}
  /\ Set(queue, t, <<>>)
  /\ Set(timer, t, FALSE)
  /\ Set(pending, t, None)
  /\ Set(sock, t, "down")
  /\ Set(hydration, t, "list")
  /\ Set(listed, t, {})
  /\ Set(sealing, t, {})
  /\ Set(ops, t, <<>>)
  /\ UNCHANGED <<composed, waited, dispatched, sent, early>>

Next ==
  \E t \in Pages :
    \/ SendPrompt(t) \/ IdleTimeout(t) \/ TurnEnded(t) \/ UpdateApplied(t)
    \/ PromptInjectResult(t) \/ Sealed(t) \/ SocketOpens(t) \/ InitializeResult(t)
    \/ SocketGone(t) \/ StorageWrite(t) \/ HydrateList(t) \/ HydrateMerge(t) \/ Reload(t)

Spec == Init /\ [][Next]_vars

\* A turn falls silent some time, a handshake is answered, and promises settle.
Fairness ==
  \A t \in Pages :
    /\ WF_vars(IdleTimeout(t))
    /\ WF_vars(InitializeResult(t))
    /\ WF_vars(HydrateList(t))
    /\ WF_vars(HydrateMerge(t))
    /\ WF_vars(StorageWrite(t))

FairSpec == Spec /\ Fairness

-----------------------------------------------------------------------------
\* Type invariant.
TypeOK ==
  /\ composed \in 0..MaxPrompts
  /\ queue \in [Pages -> Seq(Prompts)]
  /\ timer \in [Pages -> BOOLEAN]
  /\ pending \in [Pages -> Prompts \cup {None}]
  /\ sock \in [Pages -> {"down", "open", "ready"}]
  /\ hydration \in [Pages -> {"list", "merge", "done"}]
  /\ listed \in [Pages -> SUBSET Prompts]
  /\ sealing \in [Pages -> SUBSET Prompts]
  /\ ops \in [Pages -> Seq([op : {"put", "delete"}, prompt : Prompts])]
  /\ store \in SUBSET Prompts
  /\ waited \in SUBSET Prompts
  /\ dispatched \in Seq(Prompts)
  /\ sent \in Seq(Prompts)
  /\ early \in BOOLEAN
  /\ missed \in SUBSET UNION {{c, Cut(c)} : c \in {"put", "delete", "list", "seal", "send"}}
  /\ faults \in 0..MaxFaults

\* The outbox follows the queue: once a page's writes are done and its hydration is
\* over, the database holds exactly the queued prompts, through reloads with writes
\* under way, unless the database refused something.
OutboxMatchesQueue ==
  missed \cap {"put", "delete", "list"} = {} =>
    \A t \in Pages : ops[t] = <<>> /\ hydration[t] = "done" => store = ToSet(queue[t])

\* Prompts are dispatched once and in the order they were composed, through
\* reconnects, refusals and reloads, unless one goes out before the outbox has been
\* read, or the database failed, or a reload cut short the delete that follows a
\* dispatch.
DispatchedOnceInOrder ==
  ~early /\ missed \cap {"delete", Cut("delete"), "list"} = {} =>
    \A i, j \in DOMAIN dispatched : i < j => dispatched[i] < dispatched[j]

\* "Nothing queued is lost" (onSocketGone): a prompt that was queued still is, in a
\* page or in the outbox, or is being encrypted, or was sent, unless a call failed or
\* was cut short, or the socket was gone when its encryption was done: the code then
\* drops the frame of a prompt that has already left the queue.
NothingLost ==
  missed = {} => \A p \in waited :
    \/ Contains(sent, p)
    \/ p \in store
    \/ \E t \in Pages : Contains(queue[t], p) \/ p \in listed[t] \cup sealing[t]

\* A waiting prompt leaves the queue, unless the connection is lost: whatever order
\* the handshake, the outbox's read, updates, refusals and settled turns come in,
\* something will flush it.
WaitingPromptGoes ==
  \A t \in Pages, p \in Prompts :
    Contains(queue[t], p) /\ sock[t] = "ready" ~> ~Contains(queue[t], p) \/ sock[t] # "ready"

==============================================================================
