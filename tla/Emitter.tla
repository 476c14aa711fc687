------------------------------ MODULE Emitter ------------------------------
(***************************************************************************)
(* main and its Emitter: a goroutine starts one CopyMulty per input, each  *)
(* of which reads its input, drops filtered requests and their responses,  *)
(* and writes the rest to every output; at a signal main closes all        *)
(* plugins and waits for the CopyMultys.                                   *)
(*                                                                         *)
(* An input either can be stopped (HttpInput, by Close or by its listener, *)
(* see Capture), or not: TCPInput, DubboInput and FileInput return empty   *)
(* messages for ever.  No output returns an error.                         *)
(***************************************************************************)
EXTENDS Integers, Sequences, FiniteSets, SequencesExt

CONSTANTS
    Plugins,            \* the plugins of the settings, in the order of InitPlugins
    URLRegexp,          \* modifierConfig.URLRegexp, each as the set of paths it matches
    URLNegativeRegexp,  \* modifierConfig.URLNegativeRegexp, likewise
    Traffic,            \* [input that can be stopped -> the messages it may return]
    GCEvery,            \* how many filtered requests cause a clean-up: 1000
    GCAge,              \* the age of what a clean-up removes, and the time between two: 60 s
    MaxRead,            \* bound: [such an input -> how many messages are read from it]
    MaxTime             \* bound: the time

\* A plugin of the settings. limited: its options have a limit, after a "|"
Plugin == [name : STRING, kind : {"input", "output"}, stoppable : BOOLEAN, limited : BOOLEAN]
Message == [id : STRING, type : {"request", "response"}, path : STRING]

-----------------------------------------------------------------------------
(* registerPlugin.  A plugin with a limit is wrapped in a Limiter, which is   *)
(* no PluginReader, no PluginWriter and no Closer: it is only among All.      *)

NamesOf(plugins) == [k \in DOMAIN plugins |-> plugins[k].name]

\* plugins.Inputs, plugins.Outputs and plugins.All
Inputs == NamesOf(SelectSeq(Plugins, LAMBDA p : p.kind = "input" /\ ~p.limited))
Outputs == NamesOf(SelectSeq(Plugins, LAMBDA p : p.kind = "output" /\ ~p.limited))
All == NamesOf(Plugins)

Sources == ToSet(Inputs)

\* The inputs that can be stopped: the HttpInputs
Stoppable == {Plugins[k].name : k \in {n \in DOMAIN Plugins : Plugins[n].stoppable}} \cap Sources

\* main ends with a fatal error unless there is an input and an output; a name stands
\* for one plugin object
ASSUME EmitterAssumption ==
    /\ Plugins \in Seq(Plugin)
    /\ Inputs \in Seq(STRING) \ {<<>>} /\ IsInjective(Inputs)
    /\ Outputs \in Seq(STRING) \ {<<>>}
    /\ \A i \in Stoppable : Traffic[i] \subseteq Message /\ MaxRead[i] \in Nat
    /\ GCEvery \in Nat \ {0} /\ GCAge \in Nat /\ MaxTime \in Nat

VARIABLES
    main,      \* where main is
    assigned,  \* did Start set e.plugins
    started,   \* how many inputs Start has started
    group,     \* the counter of e.WaitGroup
    toClose,   \* the plugins Close has not come to yet
    quit,      \* the inputs that were closed
    now,       \* the time
    pc,        \* where the CopyMulty of each input is
    read,      \* what each CopyMulty has read so far, with the time
    next,      \* the output each CopyMulty writes to next
    filtered,  \* filteredRequests: from the id of a request to the time
    count,     \* filteredCount
    cleaned,   \* filteredRequestsLastCleanTime
    written    \* [input -> [output -> what was written, as places in read]]

program == <<main, assigned, started, group, toClose, quit>>
filter == <<filtered, count, cleaned>>
vars == <<program, now, pc, read, next, filter, written>>

\* A process that has ended does nothing any more
Alive == main \notin {"exited", "panicked"}

-----------------------------------------------------------------------------
Init ==
    /\ main = "running" /\ assigned = FALSE /\ started = 0 /\ group = 0
    /\ toClose = All /\ quit = {}
    /\ now = 0
    /\ pc = [i \in Sources |-> "none"]
    /\ read = [i \in Sources |-> <<>>]
    /\ next = [i \in Sources |-> 1]
    /\ filtered = [i \in Sources |-> [id \in {} |-> 0]]
    /\ count = [i \in Sources |-> 0]
    /\ cleaned = [i \in Sources |-> 0]
    /\ written = [i \in Sources |-> [o \in DOMAIN Outputs |-> <<>>]]

\* Start runs in a goroutine of its own: e.plugins = plugins
StartAssigns ==
    /\ ~assigned
    /\ assigned' = TRUE
    /\ UNCHANGED <<main, started, group, toClose, quit, now, pc, read, next, filter, written>>

\* Mutant of StartInput: e.Add is forgotten.
StartInputAlone ==
    /\ assigned
    /\ started < Len(Inputs)
    /\ started' = started + 1
    /\ pc' = [pc EXCEPT ![Inputs[started']] = "reading"]
    /\ cleaned' = [cleaned EXCEPT ![Inputs[started']] = now]
    /\ UNCHANGED <<main, assigned, group, toClose, quit, now, read, next, filtered, count, written>>

\* Start: e.Add(1), and the goroutine that copies the input
StartInput ==
    /\ assigned
    /\ started < Len(Inputs)
    /\ started' = started + 1
    /\ group' = group + 1
    /\ pc' = [pc EXCEPT ![Inputs[started']] = "reading"]
    /\ cleaned' = [cleaned EXCEPT ![Inputs[started']] = now]
    /\ UNCHANGED <<main, assigned, toClose, quit, now, read, next, filtered, count, written>>

-----------------------------------------------------------------------------
(* main *)

\* A signal, or the end of exit-after: main calls Close, which dereferences
\* e.plugins
Signal ==
    /\ main = "running"
    /\ main' = IF assigned THEN "closing" ELSE "panicked"
    /\ UNCHANGED <<assigned, started, group, toClose, quit, now, pc, read, next, filter, written>>

\* Close: one plugin. Only the HttpInputs stop.
CloseNext ==
    /\ main = "closing"
    /\ toClose # <<>>
    /\ quit' = quit \cup ({Head(toClose)} \cap Stoppable)
    /\ toClose' = Tail(toClose)
    /\ UNCHANGED <<main, assigned, started, group, now, pc, read, next, filter, written>>

\* Mutant of WaitReturns: plugins.All is cleared before its length is tested.
WaitReturnsUnasked ==
    /\ main = "closing"
    /\ toClose = <<>>
    /\ main' = "exited"
    /\ UNCHANGED <<assigned, started, group, toClose, quit, now, pc, read, next, filter, written>>

\* Close: e.Wait(), and main exits
WaitReturns ==
    /\ main = "closing"
    /\ toClose = <<>>
    /\ group = 0
    /\ main' = "exited"
    /\ UNCHANGED <<assigned, started, group, toClose, quit, now, pc, read, next, filter, written>>

\* The listener of an HttpInput has ended by itself
InputEnds(i) ==
    /\ i \in Stoppable \ quit
    /\ quit' = quit \cup {i}
    /\ UNCHANGED <<main, assigned, started, group, toClose, now, pc, read, next, filter, written>>

-----------------------------------------------------------------------------
(* CopyMulty *)

\* Rewrite: a request is filtered unless some URLRegexp matches its path, if there are
\* any, and no URLNegativeRegexp does
Rewrite(msg) ==
    /\ URLRegexp # {} => \E f \in URLRegexp : msg.path \in f
    /\ \A f \in URLNegativeRegexp : msg.path \notin f

Without(f, ids) == [id \in DOMAIN f \ ids |-> f[id]]
With(f, id, t) == [j \in DOMAIN f \cup {id} |-> IF j = id THEN t ELSE f[j]]

Pass(i) ==
    /\ pc' = [pc EXCEPT ![i] = "writing"]
    /\ next' = [next EXCEPT ![i] = 1]
    /\ UNCHANGED <<filtered, count>>

\* A filtered request is remembered, and skipped
FilterRequest(i, id) ==
    /\ filtered' = [filtered EXCEPT ![i] = With(@, id, now)]
    /\ count' = [count EXCEPT ![i] = @ + 1]
    /\ UNCHANGED <<pc, next>>

\* Mutant of FilterResponse: the counter goes down for every response.
FilterResponseCounts(i, id) ==
    /\ count' = [count EXCEPT ![i] = @ - 1]
    /\ IF id \in DOMAIN filtered[i]
       THEN filtered' = [filtered EXCEPT ![i] = Without(@, {id})] /\ UNCHANGED <<pc, next>>
       ELSE /\ pc' = [pc EXCEPT ![i] = "writing"] /\ next' = [next EXCEPT ![i] = 1]
            /\ UNCHANGED filtered

\* The response of a remembered request is skipped, and the request forgotten
FilterResponse(i, id) ==
    IF id \in DOMAIN filtered[i]
    THEN /\ filtered' = [filtered EXCEPT ![i] = Without(@, {id})]
         /\ count' = [count EXCEPT ![i] = @ - 1]
         /\ UNCHANGED <<pc, next>>
    ELSE Pass(i)

\* A message comes from the input, and goes through the filter
Read(i) ==
    /\ pc[i] = "reading"
    /\ i \in Stoppable
    /\ Len(read[i]) < MaxRead[i]
    /\ \E msg \in Traffic[i] :
         /\ read' = [read EXCEPT ![i] = Append(@, [msg |-> msg, at |-> now])]
         /\ IF msg.type = "response" THEN FilterResponse(i, msg.id)
            ELSE IF Rewrite(msg) THEN Pass(i)
            ELSE FilterRequest(i, msg.id)
    /\ UNCHANGED <<program, now, cleaned, written>>

\* An empty message, the only one the other inputs return
ReadEmpty(i) ==
    /\ pc[i] = "reading"
    /\ i \notin Stoppable
    /\ pc' = [pc EXCEPT ![i] = "cleaning"]
    /\ UNCHANGED <<program, now, read, next, filter, written>>

\* PluginReader returns ErrorStopped: CopyMulty ends, and e.Done() is called
ReadStopped(i) ==
    /\ pc[i] = "reading"
    /\ i \in quit
    /\ pc' = [pc EXCEPT ![i] = "done"]
    /\ group' = group - 1
    /\ UNCHANGED <<main, assigned, started, toClose, quit, now, read, next, filter, written>>

\* Mutant of Write: the loop over the outputs ends after the first when another
\* message was filtered.
WriteFirst(i) ==
    /\ pc[i] = "writing"
    /\ written' = [written EXCEPT ![i][next[i]] = Append(@, Len(read[i]))]
    /\ next' = [next EXCEPT ![i] = @ + 1]
    /\ pc' = [pc EXCEPT ![i] = IF next'[i] > Len(Outputs) \/ count[i] > 0 THEN "cleaning" ELSE @]
    /\ UNCHANGED <<program, now, read, filter>>

\* dst.PluginWriter(msg), for one output
Write(i) ==
    /\ pc[i] = "writing"
    /\ written' = [written EXCEPT ![i][next[i]] = Append(@, Len(read[i]))]
    /\ next' = [next EXCEPT ![i] = @ + 1]
    /\ pc' = [pc EXCEPT ![i] = IF next'[i] > Len(Outputs) THEN "cleaning" ELSE @]
    /\ UNCHANGED <<program, now, read, filter>>

CleanUpDue(i) ==
    count[i] > 0 /\ count[i] % GCEvery = 0 /\ now - cleaned[i] > GCAge

\* Mutant of Old: every entry is removed.
OldOrNot(i) == DOMAIN filtered[i]

Old(i) == {id \in DOMAIN filtered[i] : now - filtered[i][id] > GCAge}

\* The end of the loop's body, which a skipped message does not reach
CleanUp(i) ==
    /\ pc[i] = "cleaning"
    /\ pc' = [pc EXCEPT ![i] = "reading"]
    /\ IF CleanUpDue(i)
       THEN /\ filtered' = [filtered EXCEPT ![i] = Without(@, Old(i))]
            /\ count' = [count EXCEPT ![i] = @ - Cardinality(Old(i))]
            /\ cleaned' = [cleaned EXCEPT ![i] = now]
       ELSE UNCHANGED filter
    /\ UNCHANGED <<program, now, read, next, written>>

TimePasses ==
    /\ now < MaxTime
    /\ now' = now + 1
    /\ UNCHANGED <<program, pc, read, next, filter, written>>

-----------------------------------------------------------------------------
Start == StartAssigns \/ StartInput
Main == Signal \/ CloseNext \/ WaitReturns
CopyMulty(i) == Read(i) \/ ReadEmpty(i) \/ ReadStopped(i) \/ Write(i) \/ CleanUp(i)

Next ==
    /\ Alive
    /\ Start \/ Main \/ TimePasses \/ \E i \in Sources : InputEnds(i) \/ CopyMulty(i)

Spec == Init /\ [][Next]_vars

\* The goroutines run; a signal need not come, nor a message. PluginReader selects
\* at random between a message and quit: it does not always take the message.
Fairness ==
    /\ WF_vars(Alive /\ Start)
    /\ WF_vars(Alive /\ (CloseNext \/ WaitReturns))
    /\ \A i \in Sources :
         /\ WF_vars(Alive /\ (ReadEmpty(i) \/ Write(i) \/ CleanUp(i)))
         /\ SF_vars(Alive /\ ReadStopped(i))

FairSpec == Spec /\ Fairness
=============================================================================
