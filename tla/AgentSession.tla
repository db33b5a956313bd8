------------------------------ MODULE AgentSession ------------------------------
(***************************************************************************)
(* Chat calls on stored sessions: the pipeline of one turn, the loop of    *)
(* turns around it, and the transcript they start from and save.           *)
(*                                                                         *)
(* A call is one execute_agent_turn.  Calls on one session are not kept    *)
(* apart by any lock: each loads the whole transcript, runs, and saves the *)
(* whole transcript.  Every action is what a call does between two awaits  *)
(* on something shared.                                                    *)
(*                                                                         *)
(* A message is who produced it: the call, its turn, and a kind.  A reply  *)
(* with tool calls asks for one tool; a tool's message carries the call    *)
(* and turn of the reply it was run for.  A "result" is an error that the  *)
(* step made itself and names the id of its tool call; an "output" is what *)
(* a tool returned, and every tool of the worker returns an empty id, so   *)
(* that its place in the conversation alone ties it to a reply.            *)
(*                                                                         *)
(* The receive and stream steps let every message of the model through,    *)
(* the retrieve step only reads, and build_pipeline registers no tool that *)
(* needs approval.                                                         *)
(***************************************************************************)
EXTENDS Integers, Sequences, FiniteSets

CONSTANTS
    Calls,          \* the calls that may arrive
    Sessions,       \* the stored conversations
    Stores,         \* "file", "postgres": which SessionStore the worker opened
    Backends,       \* "durable", "process": the memories that a runtime may be given
    MaxTurns,       \* AgentRuntime.max_turns
    Budget,         \* AgentRuntime.cost_budget_usd
    Prices,         \* what one reply of a provider may cost
    Keep,           \* messages a compaction keeps
    MaxCrashes      \* bound on crashes of the worker

ASSUME StoresAssumption ==
    Stores \subseteq {"file", "postgres"} /\ Backends \subseteq {"durable", "process"}
ASSUME LimitsAssumption ==
    /\ MaxTurns \in Nat \ {0} /\ Budget \in Nat \ {0}
    /\ Keep \in Nat \ {0} /\ MaxCrashes \in Nat
ASSUME PricesAssumption == Prices \subseteq Nat
ASSUME SessionsAssumption == Sessions # {}

VARIABLES
    store,          \* the kind of store
    file,           \* the transcript in the file of each session
    row,            \* the transcript in its row of clawz_sessions
    garbled,        \* sessions whose file does not parse
    open,           \* per session, the calls that hold its file open for writing
    torn,           \* history: messages behind which a failing write cut a transcript
    backend,        \* which memory the runtime of each call was built with
    memory,         \* clawz_conversations: the messages saved of each session
    scratch,        \* the same, over all InMemoryBackends of the process
    pc,
    job,            \* what the call does: "chat" or "compact"
    session,        \* the session it works on
    loaded,         \* the transcript it read
    ctx,            \* PipelineContext.messages
    turn,           \* turns started
    cost,           \* PipelineContext.cost_accumulated
    refused,        \* turns that governance denied
    ran,            \* every execution of a tool: for which reply, in which turn
    crashes

vars == <<store, file, row, garbled, open, torn, backend, memory, scratch, pc, job,
          session, loaded, ctx, turn, cost, refused, ran, crashes>>
transcripts == <<file, row, garbled, open, torn>>
config == <<store, backend>>
memories == <<memory, scratch>>
call == <<job, session, loaded>>
spent == <<turn, cost>>

Replies == {"calls", "text"}                  \* from a provider
Assistant == Replies \cup {"decline", "limit"}
Outcome == {"result", "output"}               \* of a tool call
Kinds == Assistant \cup Outcome \cup {"ask"}
Message == [by: Calls, turn: Nat, kind: Kinds]
Conversation == Seq(Message)
Msg(c, t, k) == [by |-> c, turn |-> t, kind |-> k]
Steps == {"idle", "load", "loop", "prompt", "tools", "govern", "persist", "save", "write",
          "ended"}

In(m, s) == \E i \in 1 .. Len(s) : s[i] = m

Goto(c, step) == pc' = [pc EXCEPT ![c] = step]
\* The call is over; whether it failed makes no difference to what it leaves behind.
End(c) == Goto(c, "ended")
Say(c, m) == ctx' = [ctx EXCEPT ![c] = Append(@, m)]

-------------------------------------------------------------------------------
(* A call and the transcript it reads *)

Chat(c, s) ==
    /\ pc[c] = "idle"
    /\ Goto(c, "load")
    /\ job' = [job EXCEPT ![c] = "chat"]
    /\ session' = [session EXCEPT ![c] = s]
    /\ UNCHANGED <<config, transcripts, memories, loaded, ctx, spent, refused, ran, crashes>>

Compact(c, s) ==
    /\ pc[c] = "idle"
    /\ Goto(c, "load")
    /\ job' = [job EXCEPT ![c] = "compact"]
    /\ session' = [session EXCEPT ![c] = s]
    /\ UNCHANGED <<config, transcripts, memories, loaded, ctx, spent, refused, ran, crashes>>

\* Every operation of a PostgresSessionStore asks anew whether its table is there, and
\* takes the file when it is not or when the query fails.
UsesRow == store = "postgres"

\* The row is deleted or the file removed; a call that still holds the file open writes to
\* no session.  Either may fail, and a statement that fails may have been done.
Reset(c, s) ==
    /\ pc[c] = "idle"
    /\ End(c)
    /\ \/ /\ UsesRow
          /\ row' = [row EXCEPT ![s] = <<>>]
          /\ UNCHANGED <<file, garbled, open>>
       \/ /\ file' = [file EXCEPT ![s] = <<>>]
          /\ garbled' = garbled \ {s}
          /\ open' = [open EXCEPT ![s] = {}]
          /\ UNCHANGED row
       \/ UNCHANGED <<file, row, garbled, open>>
    /\ UNCHANGED <<config, torn, memories, call, ctx, spent, refused, ran, crashes>>

\* Mutant: a chat starts from its own message only.
ContextFresh(c, t) == IF job[c] = "chat" THEN <<>> ELSE SubSeq(t, Len(t) - Keep + 1, Len(t))

\* What a call works on: a chat on the whole transcript, a compaction on its end.
Context(c, t) == IF job[c] = "chat" THEN t ELSE SubSeq(t, Len(t) - Keep + 1, Len(t))

\* The texts that a load of the session may find.
Found(s) == (IF UsesRow THEN {row[s]} ELSE {}) \cup (IF s \in garbled THEN {} ELSE {file[s]})

Load(c) ==
    /\ pc[c] = "load"
    /\ \/ /\ End(c)
          /\ UNCHANGED <<loaded, ctx>>
       \/ \E t \in Found(session[c]) :
            \/ /\ job[c] = "compact" /\ Len(t) <= Keep
               /\ End(c)
               /\ UNCHANGED <<loaded, ctx>>
            \/ /\ job[c] = "compact" => Len(t) > Keep
               /\ Goto(c, IF job[c] = "chat" THEN "loop" ELSE "save")
               /\ loaded' = [loaded EXCEPT ![c] = t]
               /\ ctx' = [ctx EXCEPT ![c] = Context(c, t)]
    /\ UNCHANGED <<config, transcripts, memories, job, session, spent, refused, ran, crashes>>

-------------------------------------------------------------------------------
(* The loop of turns and the steps of one turn *)

\* Mutant: the budget stops the loop only once it is overdrawn by a whole budget.
OverBudgetLate(c) == cost[c] > 2 * Budget

OverBudget(c) == cost[c] >= Budget

\* The top of the loop: the budget is spent, or the next turn starts with the user's
\* message or the synthetic one that asks the model to go on.  The test of max_turns
\* at this place never holds: a turn is followed by another only below it.
StartTurn(c) ==
    /\ pc[c] = "loop"
    /\ \/ /\ OverBudget(c)
          /\ Say(c, Msg(c, turn[c], "limit"))
          /\ Goto(c, "save")
          /\ UNCHANGED turn
       \/ /\ ~OverBudget(c)
          /\ turn' = [turn EXCEPT ![c] = @ + 1]
          /\ Say(c, Msg(c, turn[c] + 1, "ask"))
          /\ Goto(c, "prompt")
    /\ UNCHANGED <<config, transcripts, memories, call, cost, refused, ran, crashes>>

\* SelectProviderStep: the router fails, or answers at a price with a reply or with
\* no choice at all.
Prompt(c) ==
    /\ pc[c] = "prompt"
    /\ \/ /\ End(c)
          /\ UNCHANGED <<ctx, cost>>
       \/ /\ \E p \in Prices : cost' = [cost EXCEPT ![c] = @ + p]
          /\ \/ \E k \in Replies : Say(c, Msg(c, turn[c], k))
             \/ UNCHANGED ctx
          /\ Goto(c, "tools")
    /\ UNCHANGED <<config, transcripts, memories, call, turn, refused, ran, crashes>>

\* The positions of the replies with tool calls.
CallsAt(s) == {i \in 1 .. Len(s) : s[i].kind = "calls"}
Latest(is) == CHOOSE i \in is : \A j \in is : j <= i

\* Mutant: the tool's outcome is not put into the conversation.
ResultsDropped(s, i, k) == s

WithResults(s, i, k) == Append(s, [s[i] EXCEPT !.kind = k])

\* ExecuteToolsStep: the latest reply that has tool calls, which need not be the
\* latest reply.  A tool that fails or does not exist has a result all the same.
ExecuteTools(c) ==
    /\ pc[c] = "tools"
    /\ \/ /\ CallsAt(ctx[c]) = {}
          /\ UNCHANGED <<ctx, ran>>
       \/ /\ CallsAt(ctx[c]) # {}
          /\ LET i == Latest(CallsAt(ctx[c])) IN
               /\ ran' = ran \cup {[reply |-> ctx[c][i], by |-> c, turn |-> turn[c]]}
               /\ \E k \in Outcome : ctx' = [ctx EXCEPT ![c] = WithResults(@, i, k)]
    /\ Goto(c, "govern")
    /\ UNCHANGED <<config, transcripts, memories, call, spent, refused, crashes>>

\* Mutant: a denied reply is declined but stays in the context.
DeclinedKept(c) == Append(ctx[c], Msg(c, turn[c], "decline"))

\* The messages of s that the assistant did not write, in their order (Vec::retain).
Retained(s) ==
    LET kept == {i \in 1 .. Len(s) : s[i].kind \notin Assistant}
        Nth(n) == CHOOSE i \in kept : Cardinality({j \in kept : j <= i}) = n
    IN  [n \in 1 .. Cardinality(kept) |-> s[Nth(n)]]

\* A denied turn loses every assistant message, those of earlier turns included.
Declined(c) == Append(Retained(ctx[c]), Msg(c, turn[c], "decline"))

\* ApplyGovernanceStep; a denial halts: the rest of the pipeline is skipped and the
\* loop ends.
Govern(c) ==
    /\ pc[c] = "govern"
    /\ \/ /\ End(c)
          /\ UNCHANGED <<ctx, refused>>
       \/ /\ ctx' = [ctx EXCEPT ![c] = Declined(c)]
          /\ refused' = refused \cup {<<c, turn[c]>>}
          /\ Goto(c, "save")
       \/ /\ Goto(c, "persist")
          /\ UNCHANGED <<ctx, refused>>
    /\ UNCHANGED <<config, transcripts, memories, call, spent, ran, crashes>>

\* Mutant: the turns are not counted.
GoesOnUncounted(c) ==
    LET said == {i \in 1 .. Len(ctx[c]) : ctx[c][i].kind \in Assistant}
    IN  said # {} /\ ctx[c][Latest(said)].kind = "calls"

\* The latest assistant message of the context asks for tools and a turn is left.
GoesOn(c) ==
    LET said == {i \in 1 .. Len(ctx[c]) : ctx[c][i].kind \in Assistant}
    IN  /\ said # {} /\ ctx[c][Latest(said)].kind = "calls"
        /\ turn[c] < MaxTurns

\* Mutant: only the last message of the context is saved, the reply in most turns.
SavedLast(s) == {s[Len(s)]}

SavedOf(s) == {s[i] : i \in 1 .. Len(s)}

\* The runtime's memory takes messages of the session: a database keeps them for good, an
\* InMemoryBackend as long as the process lasts.
Remember(c, ms) ==
    LET Into(m) == [m EXCEPT ![session[c]] = @ \cup ms] IN
    \/ backend[c] = "durable" /\ memory' = Into(memory) /\ UNCHANGED scratch
    \/ backend[c] = "process" /\ scratch' = Into(scratch) /\ UNCHANGED memory

\* PersistStateStep saves every message of the context, one insert after the other, and
\* then the agent's state; an error in the middle leaves a prefix and fails the call.
\* Afterwards the loop goes on or ends.
Persist(c) ==
    /\ pc[c] = "persist"
    /\ \/ /\ \E n \in 0 .. Len(ctx[c]) : Remember(c, {ctx[c][i] : i \in 1 .. n})
          /\ End(c)
       \/ /\ Remember(c, SavedOf(ctx[c]))
          /\ Goto(c, IF GoesOn(c) THEN "loop" ELSE "save")
    /\ UNCHANGED <<config, transcripts, call, ctx, spent, refused, ran, crashes>>

-------------------------------------------------------------------------------
(* Saving the transcript *)

\* PostgresSessionStore replaces the row in one statement, which may be done even when it
\* is reported as failed.  FileSessionStore creates the file, which empties it, before it
\* writes.  Either may fail before anything is changed.
Save(c) ==
    /\ pc[c] = "save"
    /\ LET s == session[c] IN
         \/ /\ UsesRow
            /\ row' = [row EXCEPT ![s] = ctx[c]]
            /\ End(c)
            /\ UNCHANGED <<file, garbled, open>>
         \/ /\ file' = [file EXCEPT ![s] = <<>>]
            /\ garbled' = garbled \ {s}
            /\ open' = [open EXCEPT ![s] = @ \cup {c}]
            /\ Goto(c, "write")
            /\ UNCHANGED row
         \/ /\ End(c)
            /\ UNCHANGED <<file, row, garbled, open>>
    /\ UNCHANGED <<config, torn, memories, call, ctx, spent, refused, ran, crashes>>

Garble(s) == file' = [file EXCEPT ![s] = <<>>] /\ garbled' = garbled \cup {s}

\* A call writes from the start of the file it created.  Over the text of another call that
\* created it at the same time, a shorter text leaves the other's end behind and a line
\* that does not parse.
WriteAll(c, s) ==
    /\ \/ file' = [file EXCEPT ![s] = ctx[c]] /\ garbled' = garbled \ {s}
       \/ (file[s] # <<>> \/ s \in garbled) /\ Garble(s)
    /\ End(c)
    /\ UNCHANGED torn

\* A write that fails, or stops with the process, may have written nothing, a text that
\* ends within a line or, into an empty file, some of the lines.
WriteSome(c, s) ==
    /\ \/ UNCHANGED <<file, garbled, torn>>
       \/ Garble(s) /\ UNCHANGED torn
       \/ /\ file[s] = <<>> /\ s \notin garbled
          /\ \E n \in 1 .. Len(ctx[c]) :
               /\ file' = [file EXCEPT ![s] = SubSeq(ctx[c], 1, n)]
               /\ torn' = torn \cup {ctx[c][n]}
          /\ UNCHANGED garbled
    /\ End(c)

Write(c) ==
    /\ pc[c] = "write"
    /\ LET s == session[c] IN
         \/ c \in open[s] /\ (WriteAll(c, s) \/ WriteSome(c, s))
         \/ /\ c \notin open[s]
            /\ End(c)
            /\ UNCHANGED <<file, garbled, torn>>
    /\ open' = [s \in Sessions |-> open[s] \ {c}]
    /\ UNCHANGED <<config, row, memories, call, ctx, spent, refused, ran, crashes>>

\* The worker stops: its calls are gone, what a store or a database holds stays as it is,
\* what the process held is lost.
Crash ==
    /\ crashes < MaxCrashes
    /\ crashes' = crashes + 1
    /\ pc' = [c \in Calls |-> IF pc[c] = "idle" THEN "idle" ELSE "ended"]
    /\ open' = [s \in Sessions |-> {}]
    /\ scratch' = [s \in Sessions |-> {}]
    /\ UNCHANGED <<config, file, row, garbled, torn, memory, call, ctx, spent, refused, ran>>

-------------------------------------------------------------------------------
Init ==
    /\ store \in Stores
    /\ backend \in [Calls -> Backends]
    /\ file = [s \in Sessions |-> <<>>]
    /\ row = [s \in Sessions |-> <<>>]
    /\ garbled = {} /\ torn = {}
    /\ open = [s \in Sessions |-> {}]
    /\ memory = [s \in Sessions |-> {}]
    /\ scratch = [s \in Sessions |-> {}]
    /\ pc = [c \in Calls |-> "idle"]
    /\ job = [c \in Calls |-> "chat"]
    /\ session = [c \in Calls |-> CHOOSE s \in Sessions : TRUE]
    /\ loaded = [c \in Calls |-> <<>>]
    /\ ctx = [c \in Calls |-> <<>>]
    /\ turn = [c \in Calls |-> 0]
    /\ cost = [c \in Calls |-> 0]
    /\ refused = {} /\ ran = {}
    /\ crashes = 0

Next ==
    \/ \E c \in Calls :
         \/ \E s \in Sessions : Chat(c, s) \/ Compact(c, s) \/ Reset(c, s)
         \/ Load(c) \/ StartTurn(c) \/ Prompt(c) \/ ExecuteTools(c) \/ Govern(c)
         \/ Persist(c) \/ Save(c) \/ Write(c)
    \/ Crash

Spec == Init /\ [][Next]_vars

-------------------------------------------------------------------------------
(* Properties *)

\* Types.
TypeOK ==
    /\ store \in {"file", "postgres"}
    /\ backend \in [Calls -> {"durable", "process"}]
    /\ file \in [Sessions -> Conversation]
    /\ row \in [Sessions -> Conversation]
    /\ garbled \in SUBSET Sessions
    /\ torn \in SUBSET Message
    /\ open \in [Sessions -> SUBSET Calls]
    /\ memory \in [Sessions -> SUBSET Message]
    /\ scratch \in [Sessions -> SUBSET Message]
    /\ pc \in [Calls -> Steps]
    /\ job \in [Calls -> {"chat", "compact"}]
    /\ session \in [Calls -> Sessions]
    /\ loaded \in [Calls -> Conversation]
    /\ ctx \in [Calls -> Conversation]
    /\ turn \in [Calls -> 0 .. MaxTurns]
    /\ cost \in [Calls -> Nat]
    /\ refused \in SUBSET (Calls \X Nat)
    /\ ran \in SUBSET [reply: Message, by: Calls, turn: Nat]
    /\ crashes \in 0 .. MaxCrashes

\* Right behind the reply stands the outcome of its calls; an output can be told to be
\* theirs from nothing but this place.
Followed(s, i) == i < Len(s) /\ \E k \in Outcome : s[i + 1] = [s[i] EXCEPT !.kind = k]

\* Every reply with tool calls in s is followed by their outcome, but for those in cut.
AnsweredBut(s, cut) == \A i \in CallsAt(s) : s[i] \in cut \/ Followed(s, i)

\* A provider is never sent a tool call without its outcome behind it, whatever was
\* compacted, declined, lost or saved over before, unless a failing write cut a file right
\* after the call (steps/tools.rs pushes results, session_store.rs compact cuts the
\* transcript, governance.rs removes messages).
PromptsAnswered ==
    /\ \A c \in Calls : pc[c] = "prompt" => AnsweredBut(ctx[c], torn)
    /\ \A s \in Sessions : AnsweredBut(file[s], torn) /\ AnsweredBut(row[s], torn)

\* A reply that governance denied reaches neither a memory nor a transcript, so no later
\* call sees it (governance.rs retains the other messages and halts before persist_state).
RefusedNeverStored ==
    \A c \in Calls : \A k \in Replies :
        \A t \in 1 .. MaxTurns :
            <<c, t>> \in refused =>
                \A s \in Sessions :
                    /\ Msg(c, t, k) \notin memory[s] \cup scratch[s]
                    /\ ~In(Msg(c, t, k), file[s]) /\ ~In(Msg(c, t, k), row[s])

\* Every reply that a transcript repeats to the provider was saved to the conversation
\* memory of its session if the runtime that got it had a database: whoever saved the
\* transcript, to whichever store, and however often the process, its runtimes and their
\* in-process memories were lost (persist.rs runs before save_transcript).
RepliesRemembered ==
    \A s \in Sessions : \A t \in {file[s], row[s]} : \A i \in 1 .. Len(t) :
        t[i].kind \in Replies /\ backend[t[i].by] = "durable" => t[i] \in memory[s]

\* A chat saves all it loaded, unless governance denied one of its turns: then it still
\* saves what the user and the tools said (agent.rs seeds the context with the history).
HistoryKept ==
    \A c \in Calls : job[c] = "chat" /\ pc[c] \in {"save", "write"} =>
        \A i \in 1 .. Len(loaded[c]) :
            \/ In(loaded[c][i], ctx[c])
            \/ loaded[c][i].kind \in Assistant /\ \E t \in 1 .. MaxTurns : <<c, t>> \in refused

\* A call overdraws its budget by less than the price of one reply.  The guard before each
\* turn is there "so we never exceed the cap" (agent.rs), but it knows only what the turns
\* before cost: what it does ensure is that the reply that exceeds the cap is the last.
BudgetHolds ==
    \A c \in Calls : cost[c] > 0 => \E p \in Prices : cost[c] < Budget + p

\* Claimed by steps/tools.rs ("Extracts tool_calls from the latest assistant message")
\* and idempotency.rs ("prevents double-execution of agent actions", "Wired into
\* ExecuteToolsStep before every tool invocation"): no tool call is executed twice.
ToolCallOnce == \A x, y \in ran : x.reply = y.reply => x = y
===============================================================================
