---------------------------- MODULE EmitterProofs ----------------------------
(***************************************************************************)
(* What the Emitter does for every set of plugins, any traffic and any     *)
(* rates of the clean-up: its state stays well typed, the outputs of an    *)
(* input get the same messages, the counter covers the requests that are   *)
(* remembered, and main does not exit over an input that is still copied.  *)
(***************************************************************************)
EXTENDS EmitterProperties, SequenceTheorems, FiniteSetTheorems, TLAPS

Entry == [msg : Message, at : 0..MaxTime]
Places == {"none", "reading", "writing", "cleaning", "done"}

\* The inputs whose CopyMulty has been started and has not ended
Running == {i \in Sources : pc[i] \notin {"none", "done"}}

\* What is in hand has gone to the outputs before the next one, what came before it
\* to all of them.
SameSoFar(i) ==
    \E base \in Seq(DOMAIN read[i]) :
        \A o \in DOMAIN Outputs :
            written[i][o] = IF pc[i] = "writing" /\ o < next[i]
                            THEN Append(base, Len(read[i])) ELSE base

CopiesWell(i) ==
    /\ pc[i] \in Places
    /\ read[i] \in Seq(Entry)
    /\ next[i] \in 1..(Len(Outputs) + 1)
    /\ pc[i] = "writing" => next[i] \in DOMAIN Outputs /\ read[i] # <<>>
    /\ SameSoFar(i)

FiltersWell(i) ==
    /\ IsFiniteSet(DOMAIN filtered[i])
    /\ count[i] \in Nat /\ count[i] >= Cardinality(DOMAIN filtered[i])
    /\ cleaned[i] \in 0..MaxTime

CopyInv ==
    /\ now \in 0..MaxTime
    /\ pc = [i \in Sources |-> pc[i]] /\ read = [i \in Sources |-> read[i]]
    /\ next = [i \in Sources |-> next[i]] /\ filtered = [i \in Sources |-> filtered[i]]
    /\ count = [i \in Sources |-> count[i]] /\ cleaned = [i \in Sources |-> cleaned[i]]
    /\ written = [i \in Sources |-> [o \in DOMAIN Outputs |-> written[i][o]]]
    /\ \A i \in Sources : CopiesWell(i) /\ FiltersWell(i)

\* e.WaitGroup counts the goroutines that run.
MainInv ==
    /\ main \in {"running", "closing", "exited", "panicked"}
    /\ assigned \in BOOLEAN
    /\ started \in 0..Len(Inputs)
    /\ \A k \in DOMAIN Inputs : k > started => pc[Inputs[k]] = "none"
    /\ quit \subseteq Stoppable
    /\ IsFiniteSet(Running) /\ group = Cardinality(Running) /\ group <= started

IInv == CopyInv /\ MainInv

-----------------------------------------------------------------------------
(* Constants. *)

\* The outputs and the inputs have places from 1 on, and there is one at least.
LEMMA InputsAndOutputs ==
    /\ Len(Outputs) \in Nat \ {0} /\ DOMAIN Outputs = 1..Len(Outputs)
    /\ Len(Inputs) \in Nat \ {0} /\ DOMAIN Inputs = 1..Len(Inputs)
    /\ Sources = {Inputs[k] : k \in DOMAIN Inputs}
<1>. DEFINE ins == Inputs
            outs == Outputs
<1>1. ins \in Seq(STRING) /\ ins # <<>> /\ outs \in Seq(STRING) /\ outs # <<>>
  BY EmitterAssumption
<1>2. Sources = {ins[k] : k \in DOMAIN ins}
  BY DEF Sources, ToSet
<1>. HIDE DEF ins, outs
<1>3. /\ Len(outs) \in Nat \ {0} /\ DOMAIN outs = 1..Len(outs)
      /\ Len(ins) \in Nat \ {0} /\ DOMAIN ins = 1..Len(ins)
  BY <1>1, LenProperties, EmptySeq
<1>. QED BY <1>2, <1>3 DEF ins, outs

\* A sequence on numbers up to n is one up to n + 1.
LEMMA BaseGrows ==
    ASSUME NEW S, NEW T, S \subseteq T, NEW q \in Seq(S)
    PROVE  q \in Seq(T)
<1>1. q \in [1..Len(q) -> T] /\ Len(q) \in Nat
  BY LenProperties, ElementOfSeq
<1>. QED BY <1>1, SeqDef

-----------------------------------------------------------------------------
(* The start. *)

\* The invariant holds at the start.
LEMMA InitIInv == Init => IInv
<1>. SUFFICES ASSUME Init PROVE IInv
  OBVIOUS
<1>. USE DEF Init
<1>1. ASSUME NEW i \in Sources PROVE CopiesWell(i) /\ FiltersWell(i)
  <2>1. pc[i] = "none" /\ read[i] = <<>> /\ next[i] = 1 /\ count[i] = 0 /\ cleaned[i] = 0
    BY <1>1
  <2>2. /\ <<>> \in Seq(DOMAIN read[i])
        /\ \A o \in DOMAIN Outputs : written[i][o] = <<>>
    BY <1>1, EmptySeq
  <2>3. SameSoFar(i)
    BY <2>1, <2>2 DEF SameSoFar
  <2>4. read[i] \in Seq(Entry) /\ next[i] \in 1..(Len(Outputs) + 1)
    BY <2>1, InputsAndOutputs, EmptySeq
  <2>5. DOMAIN filtered[i] = {}
    BY <1>1
  <2>6. IsFiniteSet(DOMAIN filtered[i]) /\ Cardinality(DOMAIN filtered[i]) = 0
    BY <2>5, FS_EmptySet
  <2>. QED BY <2>1, <2>3, <2>4, <2>6, EmitterAssumption DEF CopiesWell, FiltersWell, Places
<1>2. CopyInv
  <2>1. now \in 0..MaxTime
    BY EmitterAssumption
  <2>2. /\ pc = [i \in Sources |-> pc[i]] /\ read = [i \in Sources |-> read[i]]
        /\ next = [i \in Sources |-> next[i]] /\ count = [i \in Sources |-> count[i]]
        /\ cleaned = [i \in Sources |-> cleaned[i]]
    OBVIOUS
  <2>3. filtered = [i \in Sources |-> filtered[i]]
    OBVIOUS
  <2>4. written = [i \in Sources |-> [o \in DOMAIN Outputs |-> written[i][o]]]
    OBVIOUS
  <2>. QED BY <1>1, <2>1, <2>2, <2>3, <2>4 DEF CopyInv
<1>3. Running = {}
  BY DEF Running
<1>4. IsFiniteSet(Running) /\ Cardinality(Running) = 0
  BY <1>3, FS_EmptySet
<1>5. \A k \in DOMAIN Inputs : pc[Inputs[k]] = "none"
  BY InputsAndOutputs
<1>6. main = "running" /\ assigned = FALSE /\ started = 0 /\ group = 0 /\ quit = {}
  OBVIOUS
<1>7. started \in 0..Len(Inputs) /\ group <= started
  BY <1>6, InputsAndOutputs
<1>8. MainInv
  BY <1>4, <1>5, <1>6, <1>7 DEF MainInv
<1>. QED BY <1>2, <1>8 DEF IInv

-----------------------------------------------------------------------------
(* main, and the goroutine that starts the inputs. *)

\* What touches neither the CopyMultys nor how many there are keeps the invariant.
LEMMA CopiesUntouched ==
    ASSUME IInv, UNCHANGED <<pc, read, next, filter, written, started, group>>,
           now' \in 0..MaxTime, assigned' \in BOOLEAN, quit' \subseteq Stoppable,
           main' \in {"running", "closing", "exited", "panicked"}
    PROVE  IInv'
<1>1. UNCHANGED <<pc, read, next, filtered, count, cleaned, written, started, group>>
  BY DEF filter
<1>2. Running' = Running /\ \A i \in Sources : SameSoFar(i)' = SameSoFar(i)
  BY <1>1 DEF Running, SameSoFar
<1>3. \A i \in Sources : CopiesWell(i)' /\ FiltersWell(i)'
  BY <1>1, <1>2 DEF IInv, CopyInv, CopiesWell, FiltersWell
<1>4. CopyInv'
  BY <1>1, <1>3 DEF IInv, CopyInv
<1>5. MainInv'
  BY <1>1, <1>2 DEF IInv, MainInv
<1>. QED BY <1>4, <1>5 DEF IInv

\* Start adds to the wait group what it starts: an input that was not started yet.
LEMMA StartInputIInv == IInv /\ StartInput => IInv'
<1>. SUFFICES ASSUME IInv, StartInput PROVE IInv'
  OBVIOUS
<1>. DEFINE i == Inputs[started + 1]
<1>1. /\ started + 1 \in DOMAIN Inputs /\ i \in Sources /\ started' = started + 1
      /\ started \in Nat /\ pc[i] = "none"
  BY InputsAndOutputs DEF StartInput, IInv, MainInv
<1>2. /\ pc' = [pc EXCEPT ![i] = "reading"] /\ cleaned' = [cleaned EXCEPT ![i] = now]
      /\ group' = group + 1
      /\ UNCHANGED <<main, assigned, toClose, quit, now, read, next, filtered, count, written>>
  BY <1>1 DEF StartInput
<1>. HIDE DEF i
<1>3. ASSUME NEW j \in Sources PROVE CopiesWell(j)' /\ FiltersWell(j)'
  <2>1. pc'[j] \in Places /\ (pc'[j] = "writing" <=> pc[j] = "writing") /\ cleaned'[j] \in 0..MaxTime
    BY <1>1, <1>2 DEF IInv, CopyInv, CopiesWell, FiltersWell, Places
  <2>2. SameSoFar(j)' = SameSoFar(j)
    BY <1>2, <2>1 DEF SameSoFar
  <2>. QED BY <1>2, <2>1, <2>2 DEF IInv, CopyInv, CopiesWell, FiltersWell
<1>4. CopyInv'
  BY <1>2, <1>3 DEF IInv, CopyInv
<1>5. Running' = Running \cup {i} /\ i \notin Running
  BY <1>1, <1>2 DEF Running, IInv, CopyInv
<1>6. IsFiniteSet(Running') /\ group' = Cardinality(Running') /\ group' <= started'
  <2>1. /\ IsFiniteSet(Running) /\ group = Cardinality(Running) /\ group <= started
        /\ Cardinality(Running) \in Nat
    BY FS_CardinalityType DEF IInv, MainInv
  <2>2. IsFiniteSet(Running \cup {i}) /\ Cardinality(Running \cup {i}) = Cardinality(Running) + 1
    BY <1>5, <2>1, FS_AddElement
  <2>. QED BY <1>1, <1>2, <1>5, <2>1, <2>2
<1>7. ASSUME NEW k \in DOMAIN Inputs, k > started' PROVE pc'[Inputs[k]] = "none"
  <2>. DEFINE ins == Inputs
  <2>1. IsInjective(ins) /\ DOMAIN ins = 1..Len(ins) /\ ins[started + 1] = i
    BY EmitterAssumption, InputsAndOutputs DEF i
  <2>2. pc[ins[k]] = "none" /\ k # started + 1
    BY <1>1, <1>7, InputsAndOutputs DEF IInv, MainInv
  <2>3. started + 1 \in DOMAIN ins /\ k \in DOMAIN ins
    BY <1>1
  <2>. HIDE DEF ins
  <2>4. ins[k] # i
    BY <2>1, <2>2, <2>3 DEF IsInjective
  <2>5. pc'[ins[k]] = "none"
    BY <1>2, <2>2, <2>4 DEF IInv, CopyInv
  <2>. QED BY <2>5 DEF ins
<1>8. started' \in 0..Len(Inputs)
  BY <1>1, InputsAndOutputs
<1>9. MainInv'
  BY <1>2, <1>6, <1>7, <1>8 DEF IInv, MainInv
<1>. QED BY <1>4, <1>9 DEF IInv

\* The steps of main, the end of a listener, and time.
LEMMA MainIInv ==
    ASSUME IInv, StartAssigns \/ Main \/ TimePasses \/ \E i \in Sources : InputEnds(i)
    PROVE  IInv'
<1>1. /\ now \in 0..MaxTime /\ assigned \in BOOLEAN /\ quit \subseteq Stoppable
      /\ main \in {"running", "closing", "exited", "panicked"}
  BY DEF IInv, CopyInv, MainInv
<1>2. CASE StartAssigns
  BY <1>1, <1>2, CopiesUntouched DEF StartAssigns
<1>3. CASE Signal
  BY <1>1, <1>3, CopiesUntouched DEF Signal
<1>4. CASE CloseNext
  <2>1. quit' \subseteq Stoppable
    BY <1>1, <1>4 DEF CloseNext
  <2>. QED BY <1>1, <1>4, <2>1, CopiesUntouched DEF CloseNext
<1>5. CASE WaitReturns
  BY <1>1, <1>5, CopiesUntouched DEF WaitReturns
<1>6. CASE TimePasses
  <2>1. now' \in 0..MaxTime
    BY <1>1, <1>6, EmitterAssumption DEF TimePasses
  <2>. QED BY <1>1, <1>6, <2>1, CopiesUntouched DEF TimePasses, program
<1>7. ASSUME NEW i \in Sources, InputEnds(i) PROVE IInv'
  <2>1. quit' \subseteq Stoppable
    BY <1>1, <1>7 DEF InputEnds
  <2>. QED BY <1>1, <1>7, <2>1, CopiesUntouched DEF InputEnds
<1>. QED BY <1>2, <1>3, <1>4, <1>5, <1>6, <1>7 DEF Main

-----------------------------------------------------------------------------
(* CopyMulty. *)

\* The variables of the input i after a step of its CopyMulty, and those of the others.
OnlyOf(i) ==
    /\ pc' = [pc EXCEPT ![i] = pc'[i]] /\ read' = [read EXCEPT ![i] = read'[i]]
    /\ next' = [next EXCEPT ![i] = next'[i]] /\ filtered' = [filtered EXCEPT ![i] = filtered'[i]]
    /\ count' = [count EXCEPT ![i] = count'[i]] /\ cleaned' = [cleaned EXCEPT ![i] = cleaned'[i]]
    /\ written' = [written EXCEPT ![i] = written'[i]]
    /\ written'[i] = [o \in DOMAIN Outputs |-> written'[i][o]]
    /\ now' = now

\* A CopyMulty works on what belongs to its own input.
LEMMA OthersUntouched ==
    ASSUME CopyInv, NEW i \in Sources, OnlyOf(i), CopiesWell(i)', FiltersWell(i)'
    PROVE  CopyInv'
<1>1. ASSUME NEW j \in Sources, j # i
      PROVE  /\ pc'[j] = pc[j] /\ read'[j] = read[j] /\ next'[j] = next[j]
             /\ filtered'[j] = filtered[j] /\ count'[j] = count[j]
             /\ cleaned'[j] = cleaned[j] /\ written'[j] = written[j]
  BY <1>1 DEF OnlyOf, CopyInv
<1>2. ASSUME NEW j \in Sources, j # i PROVE CopiesWell(j)' /\ FiltersWell(j)'
  <2>1. SameSoFar(j)' = SameSoFar(j)
    BY <1>1, <1>2 DEF SameSoFar
  <2>. QED BY <1>1, <1>2, <2>1 DEF CopyInv, CopiesWell, FiltersWell
<1>3. /\ pc' = [k \in Sources |-> pc'[k]] /\ read' = [k \in Sources |-> read'[k]]
      /\ next' = [k \in Sources |-> next'[k]] /\ filtered' = [k \in Sources |-> filtered'[k]]
  BY DEF OnlyOf, CopyInv
<1>4. /\ count' = [k \in Sources |-> count'[k]] /\ cleaned' = [k \in Sources |-> cleaned'[k]]
  BY DEF OnlyOf, CopyInv
<1>5. written' = [k \in Sources |-> [o \in DOMAIN Outputs |-> written'[k][o]]]
  <2>1. \A k \in Sources : written'[k] = [o \in DOMAIN Outputs |-> written'[k][o]]
    BY <1>1 DEF OnlyOf, CopyInv
  <2>2. written' = [k \in Sources |-> written'[k]]
    BY DEF OnlyOf, CopyInv
  <2>. QED BY <2>1, <2>2
<1>6. now' \in 0..MaxTime
  BY DEF OnlyOf, CopyInv
<1>. QED BY <1>2, <1>3, <1>4, <1>5, <1>6 DEF CopyInv

\* A CopyMulty that neither begins nor ends leaves main's invariant alone.
LEMMA MainUntouched ==
    ASSUME IInv, NEW i \in Sources, UNCHANGED program, pc' = [pc EXCEPT ![i] = pc'[i]],
           pc[i] \notin {"none", "done"}, pc'[i] \notin {"none", "done"}
    PROVE  MainInv'
<1>1. pc = [j \in Sources |-> pc[j]]
  BY DEF IInv, CopyInv
<1>2. Running' = Running
  BY <1>1 DEF Running
<1>3. \A j \in Sources : pc[j] = "none" => pc'[j] = "none"
  BY <1>1
<1>4. \A k \in DOMAIN Inputs : Inputs[k] \in Sources
  BY InputsAndOutputs
<1>. QED BY <1>2, <1>3, <1>4 DEF IInv, MainInv, program

\* What is read next leaves all outputs with the same messages.
LEMMA ReadKeepsSame ==
    ASSUME CopyInv, NEW i \in Sources, pc[i] # "writing", NEW e \in Entry,
           read'[i] = Append(read[i], e), written' = written,
           pc'[i] = "writing" => next'[i] = 1
    PROVE  /\ read'[i] \in Seq(Entry) /\ read'[i] # <<>>
           /\ SameSoFar(i)'
<1>1. read[i] \in Seq(Entry) /\ SameSoFar(i)
  BY DEF CopyInv, CopiesWell
<1>2. /\ read'[i] \in Seq(Entry) /\ Len(read'[i]) = Len(read[i]) + 1 /\ Len(read[i]) \in Nat
      /\ DOMAIN read[i] = 1..Len(read[i]) /\ DOMAIN read'[i] = 1..Len(read'[i])
  BY <1>1, AppendProperties, LenProperties
<1>3. read'[i] # <<>>
  BY <1>2, EmptySeq
<1>4. PICK base \in Seq(DOMAIN read[i]) : \A o \in DOMAIN Outputs : written[i][o] = base
  BY <1>1 DEF SameSoFar
<1>5. DOMAIN read[i] \subseteq DOMAIN read'[i]
  BY <1>2
<1>6. base \in Seq(DOMAIN read'[i])
  BY <1>5, BaseGrows
<1>7. \A o \in DOMAIN Outputs : o \in Nat \ {0}
  BY InputsAndOutputs
<1>8. \A o \in DOMAIN Outputs : ~(pc'[i] = "writing" /\ o < next'[i])
  BY <1>7
<1>9. SameSoFar(i)'
  BY <1>4, <1>6, <1>8 DEF SameSoFar
<1>. QED BY <1>2, <1>3, <1>9

\* The filter remembers a request more, and counts one more at least.
LEMMA RememberOne ==
    ASSUME NEW f, IsFiniteSet(DOMAIN f), NEW id, NEW t,
           NEW n \in Nat, n >= Cardinality(DOMAIN f)
    PROVE  /\ IsFiniteSet(DOMAIN With(f, id, t))
           /\ n + 1 \in Nat /\ n + 1 >= Cardinality(DOMAIN With(f, id, t))
<1>1. DOMAIN With(f, id, t) = DOMAIN f \cup {id}
  BY DEF With
<1>2. /\ IsFiniteSet(DOMAIN f \cup {id})
      /\ Cardinality(DOMAIN f) \in Nat
      /\ Cardinality(DOMAIN f \cup {id}) <= Cardinality(DOMAIN f) + 1
  BY FS_AddElement, FS_CardinalityType
<1>3. Cardinality(DOMAIN f \cup {id}) \in Nat
  BY <1>2, FS_CardinalityType
<1>. QED BY <1>1, <1>2, <1>3

\* Forgetting remembered requests counts each of them down once.
LEMMA ForgetSome ==
    ASSUME NEW f, IsFiniteSet(DOMAIN f), NEW ids \in SUBSET DOMAIN f,
           NEW n \in Nat, n >= Cardinality(DOMAIN f)
    PROVE  /\ IsFiniteSet(DOMAIN Without(f, ids))
           /\ n - Cardinality(ids) \in Nat
           /\ n - Cardinality(ids) >= Cardinality(DOMAIN Without(f, ids))
<1>1. DOMAIN Without(f, ids) = DOMAIN f \ ids /\ DOMAIN f \cap ids = ids
  BY DEF Without
<1>2. /\ IsFiniteSet(DOMAIN f \ ids)
      /\ Cardinality(DOMAIN f \ ids) = Cardinality(DOMAIN f) - Cardinality(DOMAIN f \cap ids)
  BY FS_Difference
<1>3. IsFiniteSet(ids) /\ Cardinality(ids) <= Cardinality(DOMAIN f)
  BY FS_Subset
<1>4. Cardinality(ids) \in Nat /\ Cardinality(DOMAIN f) \in Nat
  BY <1>3, FS_CardinalityType
<1>. QED BY <1>1, <1>2, <1>3, <1>4

\* A response forgets the one request it belongs to.
LEMMA ForgetOne ==
    ASSUME NEW f, IsFiniteSet(DOMAIN f), NEW id \in DOMAIN f,
           NEW n \in Nat, n >= Cardinality(DOMAIN f)
    PROVE  /\ IsFiniteSet(DOMAIN Without(f, {id}))
           /\ n - 1 \in Nat /\ n - 1 >= Cardinality(DOMAIN Without(f, {id}))
<1>1. IsFiniteSet({id}) /\ Cardinality({id}) = 1
  <2>1. IsFiniteSet({} \cup {id}) /\ Cardinality({} \cup {id}) = 0 + 1
    BY FS_EmptySet, FS_AddElement
  <2>. QED BY <2>1
<1>. QED BY <1>1, ForgetSome

\* A message is read, and passed on, remembered or skipped.
LEMMA ReadIInv == \A i \in Sources : IInv /\ Read(i) => IInv'
<1>. SUFFICES ASSUME NEW i \in Sources, IInv, Read(i) PROVE IInv'
  OBVIOUS
<1>1. /\ pc[i] = "reading" /\ i \in Stoppable
      /\ UNCHANGED <<program, now, cleaned, written>>
  BY DEF Read
<1>2. PICK msg \in Traffic[i] :
        /\ read' = [read EXCEPT ![i] = Append(@, [msg |-> msg, at |-> now])]
        /\ IF msg.type = "response" THEN FilterResponse(i, msg.id)
           ELSE IF Rewrite(msg) THEN Pass(i)
           ELSE FilterRequest(i, msg.id)
  BY DEF Read
<1>3. CopyInv /\ CopiesWell(i) /\ FiltersWell(i)
  BY DEF IInv, CopyInv
<1>. DEFINE e == [msg |-> msg, at |-> now]
<1>4. e \in Entry
  <2>1. msg \in Message
    BY <1>1, EmitterAssumption
  <2>. QED BY <1>3, <2>1 DEF Entry, CopyInv
<1>. HIDE DEF e
<1>5. read'[i] = Append(read[i], e)
  BY <1>2, <1>3 DEF CopyInv, e
<1>6. \/ Pass(i) \/ FilterRequest(i, msg.id)
      \/ /\ msg.id \in DOMAIN filtered[i]
         /\ filtered' = [filtered EXCEPT ![i] = Without(@, {msg.id})]
         /\ count' = [count EXCEPT ![i] = @ - 1]
         /\ UNCHANGED <<pc, next>>
  BY <1>2 DEF FilterResponse
<1>7. /\ pc'[i] \in {"reading", "writing"} /\ pc' = [pc EXCEPT ![i] = pc'[i]]
      /\ next' = [next EXCEPT ![i] = next'[i]] /\ next'[i] \in {1, next[i]}
      /\ pc'[i] = "writing" => next'[i] = 1
  BY <1>1, <1>3, <1>6 DEF Pass, FilterRequest, CopyInv
<1>8. /\ FiltersWell(i)'
      /\ filtered' = [filtered EXCEPT ![i] = filtered'[i]]
      /\ count' = [count EXCEPT ![i] = count'[i]]
  <2>1. CASE Pass(i)
    BY <1>1, <1>3, <2>1 DEF Pass, FiltersWell, CopyInv
  <2>2. CASE FilterRequest(i, msg.id)
    <3>1. filtered'[i] = With(filtered[i], msg.id, now) /\ count'[i] = count[i] + 1
      BY <1>3, <2>2 DEF FilterRequest, CopyInv
    <3>2. IsFiniteSet(DOMAIN filtered'[i]) /\ count'[i] \in Nat
          /\ count'[i] >= Cardinality(DOMAIN filtered'[i])
      BY <1>3, <3>1, RememberOne DEF FiltersWell
    <3>. QED BY <1>1, <1>3, <2>2, <3>2 DEF FilterRequest, FiltersWell, CopyInv
  <2>3. CASE /\ msg.id \in DOMAIN filtered[i]
             /\ filtered' = [filtered EXCEPT ![i] = Without(@, {msg.id})]
             /\ count' = [count EXCEPT ![i] = @ - 1]
    <3>1. filtered'[i] = Without(filtered[i], {msg.id}) /\ count'[i] = count[i] - 1
      BY <1>3, <2>3 DEF CopyInv
    <3>2. IsFiniteSet(DOMAIN filtered'[i]) /\ count'[i] \in Nat
          /\ count'[i] >= Cardinality(DOMAIN filtered'[i])
      BY <1>3, <2>3, <3>1, ForgetOne DEF FiltersWell
    <3>. QED BY <1>1, <1>3, <2>3, <3>2 DEF FiltersWell, CopyInv
  <2>. QED BY <1>6, <2>1, <2>2, <2>3
<1>9. CopiesWell(i)'
  <2>1. read'[i] \in Seq(Entry) /\ read'[i] # <<>> /\ SameSoFar(i)'
    BY <1>1, <1>3, <1>4, <1>5, <1>7, ReadKeepsSame
  <2>2. next'[i] \in 1..(Len(Outputs) + 1) /\ (pc'[i] = "writing" => next'[i] \in DOMAIN Outputs)
    BY <1>3, <1>7, InputsAndOutputs DEF CopiesWell
  <2>. QED BY <1>7, <2>1, <2>2 DEF CopiesWell, Places
<1>10. OnlyOf(i)
  <2>1. read' = [read EXCEPT ![i] = read'[i]]
    BY <1>2, <1>3 DEF CopyInv
  <2>2. cleaned' = [cleaned EXCEPT ![i] = cleaned'[i]] /\ now' = now
    BY <1>1, <1>3 DEF CopyInv
  <2>3. /\ written' = [written EXCEPT ![i] = written'[i]]
        /\ written'[i] = [o \in DOMAIN Outputs |-> written'[i][o]]
    BY <1>1, <1>3 DEF CopyInv
  <2>. QED BY <1>7, <1>8, <2>1, <2>2, <2>3 DEF OnlyOf
<1>11. MainInv'
  BY <1>1, <1>7, MainUntouched
<1>. QED BY <1>3, <1>8, <1>9, <1>10, <1>11, OthersUntouched DEF IInv

\* The other inputs' empty messages end the loop's body.
LEMMA ReadEmptyIInv == \A i \in Sources : IInv /\ ReadEmpty(i) => IInv'
<1>. SUFFICES ASSUME NEW i \in Sources, IInv, ReadEmpty(i) PROVE IInv'
  OBVIOUS
<1>1. CopyInv /\ CopiesWell(i) /\ FiltersWell(i) /\ pc[i] = "reading"
  BY DEF IInv, CopyInv, ReadEmpty
<1>2. /\ pc' = [pc EXCEPT ![i] = pc'[i]] /\ pc'[i] = "cleaning"
      /\ UNCHANGED <<program, now, read, next, filtered, count, cleaned, written>>
  BY <1>1 DEF ReadEmpty, CopyInv, filter
<1>3. SameSoFar(i)' = SameSoFar(i)
  BY <1>1, <1>2 DEF SameSoFar
<1>4. CopiesWell(i)' /\ FiltersWell(i)'
  BY <1>1, <1>2, <1>3 DEF CopiesWell, FiltersWell, Places
<1>5. OnlyOf(i)
  BY <1>1, <1>2 DEF OnlyOf, CopyInv
<1>6. MainInv'
  BY <1>1, <1>2, MainUntouched
<1>. QED BY <1>1, <1>4, <1>5, <1>6, OthersUntouched DEF IInv

\* A CopyMulty that ends is taken off the wait group.
LEMMA ReadStoppedIInv == \A i \in Sources : IInv /\ ReadStopped(i) => IInv'
<1>. SUFFICES ASSUME NEW i \in Sources, IInv, ReadStopped(i) PROVE IInv'
  OBVIOUS
<1>1. CopyInv /\ CopiesWell(i) /\ FiltersWell(i) /\ pc[i] = "reading"
  BY DEF IInv, CopyInv, ReadStopped
<1>2. /\ pc' = [pc EXCEPT ![i] = pc'[i]] /\ pc'[i] = "done" /\ group' = group - 1
      /\ UNCHANGED <<main, assigned, started, quit, now, read, next, written>>
      /\ UNCHANGED <<filtered, count, cleaned>>
  BY <1>1 DEF ReadStopped, CopyInv, filter
<1>3. SameSoFar(i)' = SameSoFar(i)
  BY <1>1, <1>2 DEF SameSoFar
<1>4. CopiesWell(i)' /\ FiltersWell(i)'
  BY <1>1, <1>2, <1>3 DEF CopiesWell, FiltersWell, Places
<1>5. OnlyOf(i)
  BY <1>1, <1>2 DEF OnlyOf, CopyInv
<1>6. Running' = Running \ {i} /\ i \in Running
  BY <1>1, <1>2 DEF Running, CopyInv
<1>7. IsFiniteSet(Running') /\ group' = Cardinality(Running') /\ group' <= started'
  <2>1. /\ IsFiniteSet(Running) /\ group = Cardinality(Running) /\ group <= started
        /\ started \in Nat
    BY InputsAndOutputs DEF IInv, MainInv
  <2>2. /\ Cardinality(Running) \in Nat
        /\ IsFiniteSet(Running \ {i}) /\ Cardinality(Running \ {i}) = Cardinality(Running) - 1
    BY <1>6, <2>1, FS_RemoveElement, FS_CardinalityType
  <2>. QED BY <1>2, <1>6, <2>1, <2>2
<1>8. \A k \in DOMAIN Inputs : k > started => pc'[Inputs[k]] = "none"
  <2>1. \A j \in Sources : pc[j] = "none" => pc'[j] = "none"
    BY <1>1, <1>2 DEF CopyInv
  <2>. QED BY <2>1, InputsAndOutputs DEF IInv, MainInv
<1>9. MainInv'
  BY <1>2, <1>7, <1>8 DEF IInv, MainInv
<1>. QED BY <1>1, <1>4, <1>5, <1>9, OthersUntouched DEF IInv

\* The message in hand goes to one output more.
LEMMA WriteKeepsSame ==
    ASSUME CopyInv, NEW i \in Sources, Write(i)
    PROVE  SameSoFar(i)'
<1>1. /\ pc[i] = "writing" /\ next[i] \in DOMAIN Outputs /\ read[i] \in Seq(Entry) /\ read[i] # <<>>
      /\ SameSoFar(i) /\ pc[i] \in Places
  BY DEF CopyInv, CopiesWell, Write
<1>2. PICK base \in Seq(DOMAIN read[i]) :
        \A o \in DOMAIN Outputs :
            written[i][o] = IF o < next[i] THEN Append(base, Len(read[i])) ELSE base
  BY <1>1 DEF SameSoFar
<1>. DEFINE p == Len(read[i])
            longer == Append(base, p)
<1>3. p \in DOMAIN read[i]
  BY <1>1, LenProperties, EmptySeq
<1>4. longer \in Seq(DOMAIN read[i])
  BY <1>3, AppendProperties
<1>5. /\ read' = read /\ next'[i] = next[i] + 1
      /\ pc'[i] = IF next[i] + 1 > Len(Outputs) THEN "cleaning" ELSE "writing"
  BY <1>1 DEF Write, CopyInv
<1>6. \A o \in DOMAIN Outputs :
         written'[i][o] = IF o = next[i] THEN Append(written[i][o], p) ELSE written[i][o]
  BY <1>1 DEF Write, CopyInv
<1>. HIDE DEF p
<1>7. ASSUME NEW o \in DOMAIN Outputs
      PROVE  written'[i][o] = IF o < next[i] + 1 THEN longer ELSE base
  <2>1. o \in Nat /\ next[i] \in Nat
    BY <1>1, InputsAndOutputs
  <2>2. CASE o = next[i]
    BY <1>2, <1>6, <2>1, <2>2
  <2>3. CASE o < next[i]
    BY <1>2, <1>6, <2>1, <2>3 DEF p
  <2>4. CASE o > next[i]
    BY <1>2, <1>6, <2>1, <2>4
  <2>. QED BY <2>1, <2>2, <2>3, <2>4
<1>. HIDE DEF longer
<1>8. CASE next[i] + 1 > Len(Outputs)
  <2>1. \A o \in DOMAIN Outputs : o < next[i] + 1
    BY <1>1, <1>8, InputsAndOutputs
  <2>2. \A o \in DOMAIN Outputs : written'[i][o] = longer
    BY <1>7, <2>1
  <2>. QED BY <1>4, <1>5, <1>8, <2>2 DEF SameSoFar
<1>9. CASE ~(next[i] + 1 > Len(Outputs))
  <2>1. pc'[i] = "writing" /\ next'[i] = next[i] + 1 /\ read'[i] = read[i]
    BY <1>5, <1>9
  <2>2. \A o \in DOMAIN Outputs :
           written'[i][o] = IF pc'[i] = "writing" /\ o < next'[i]
                            THEN Append(base, Len(read'[i])) ELSE base
    BY <1>7, <2>1 DEF longer, p
  <2>. QED BY <2>1, <2>2 DEF SameSoFar
<1>. QED BY <1>8, <1>9

\* A write to one output.
LEMMA WriteIInv == \A i \in Sources : IInv /\ Write(i) => IInv'
<1>. SUFFICES ASSUME NEW i \in Sources, IInv, Write(i) PROVE IInv'
  OBVIOUS
<1>1. CopyInv /\ CopiesWell(i) /\ FiltersWell(i) /\ pc[i] = "writing"
  BY DEF IInv, CopyInv, Write
<1>2. /\ pc' = [pc EXCEPT ![i] = pc'[i]] /\ next' = [next EXCEPT ![i] = next'[i]]
      /\ next'[i] = next[i] + 1
      /\ pc'[i] = IF next[i] + 1 > Len(Outputs) THEN "cleaning" ELSE "writing"
      /\ UNCHANGED <<program, now, read, filtered, count, cleaned>>
  BY <1>1 DEF Write, CopyInv, filter
<1>3. /\ written' = [written EXCEPT ![i] = written'[i]]
      /\ written'[i] = [o \in DOMAIN Outputs |-> written'[i][o]]
  BY <1>1 DEF Write, CopyInv
<1>4. SameSoFar(i)'
  BY <1>1, WriteKeepsSame
<1>5. /\ next'[i] \in 1..(Len(Outputs) + 1)
      /\ pc'[i] = "writing" => next'[i] \in DOMAIN Outputs
  BY <1>1, <1>2, InputsAndOutputs DEF CopiesWell
<1>6. CopiesWell(i)' /\ FiltersWell(i)'
  BY <1>1, <1>2, <1>4, <1>5 DEF CopiesWell, FiltersWell, Places
<1>7. OnlyOf(i)
  BY <1>1, <1>2, <1>3 DEF OnlyOf, CopyInv
<1>8. MainInv'
  BY <1>1, <1>2, MainUntouched
<1>. QED BY <1>1, <1>6, <1>7, <1>8, OthersUntouched DEF IInv

\* The clean-up forgets old requests, and counts each of them down.
LEMMA CleanUpIInv == \A i \in Sources : IInv /\ CleanUp(i) => IInv'
<1>. SUFFICES ASSUME NEW i \in Sources, IInv, CleanUp(i) PROVE IInv'
  OBVIOUS
<1>1. CopyInv /\ CopiesWell(i) /\ FiltersWell(i) /\ pc[i] = "cleaning" /\ now \in 0..MaxTime
  BY DEF IInv, CopyInv, CleanUp
<1>2. /\ pc' = [pc EXCEPT ![i] = pc'[i]] /\ pc'[i] = "reading"
      /\ UNCHANGED <<program, now, read, next, written>>
  BY <1>1 DEF CleanUp, CopyInv
<1>3. SameSoFar(i)' = SameSoFar(i)
  BY <1>1, <1>2 DEF SameSoFar
<1>4. CopiesWell(i)'
  BY <1>1, <1>2, <1>3 DEF CopiesWell, Places
<1>5. /\ FiltersWell(i)'
      /\ filtered' = [filtered EXCEPT ![i] = filtered'[i]]
      /\ count' = [count EXCEPT ![i] = count'[i]]
      /\ cleaned' = [cleaned EXCEPT ![i] = cleaned'[i]]
  <2>1. CASE CleanUpDue(i)
    <3>1. /\ filtered' = [filtered EXCEPT ![i] = Without(@, Old(i))]
          /\ count' = [count EXCEPT ![i] = @ - Cardinality(Old(i))]
          /\ cleaned' = [cleaned EXCEPT ![i] = now]
      BY <2>1 DEF CleanUp
    <3>2. /\ filtered'[i] = Without(filtered[i], Old(i)) /\ cleaned'[i] = now
          /\ count'[i] = count[i] - Cardinality(Old(i))
      BY <1>1, <3>1 DEF CopyInv
    <3>3. Old(i) \in SUBSET DOMAIN filtered[i]
      BY DEF Old
    <3>4. /\ IsFiniteSet(DOMAIN filtered'[i]) /\ count'[i] \in Nat
          /\ count'[i] >= Cardinality(DOMAIN filtered'[i])
      BY <1>1, <3>2, <3>3, ForgetSome DEF FiltersWell
    <3>. QED BY <1>1, <3>1, <3>2, <3>4 DEF FiltersWell, CopyInv
  <2>2. CASE ~CleanUpDue(i)
    <3>1. UNCHANGED <<filtered, count, cleaned>>
      BY <2>2 DEF CleanUp, filter
    <3>. QED BY <1>1, <3>1 DEF FiltersWell, CopyInv
  <2>. QED BY <2>1, <2>2
<1>6. OnlyOf(i)
  <2>1. /\ read' = [read EXCEPT ![i] = read'[i]] /\ next' = [next EXCEPT ![i] = next'[i]]
        /\ now' = now
    BY <1>1, <1>2 DEF CopyInv
  <2>2. /\ written' = [written EXCEPT ![i] = written'[i]]
        /\ written'[i] = [o \in DOMAIN Outputs |-> written'[i][o]]
    BY <1>1, <1>2 DEF CopyInv
  <2>. QED BY <1>2, <1>5, <2>1, <2>2 DEF OnlyOf
<1>7. MainInv'
  BY <1>1, <1>2, MainUntouched
<1>. QED BY <1>1, <1>4, <1>5, <1>6, <1>7, OthersUntouched DEF IInv

-----------------------------------------------------------------------------
\* Every step keeps the invariant.
LEMMA NextIInv == IInv /\ [Next]_vars => IInv'
<1>. SUFFICES ASSUME IInv, [Next]_vars PROVE IInv'
  OBVIOUS
<1>1. CASE UNCHANGED vars
  <2>1. UNCHANGED <<pc, read, next, filter, written, started, group, now, assigned, quit, main>>
    BY <1>1 DEF vars, program
  <2>2. /\ now' \in 0..MaxTime /\ assigned' \in BOOLEAN /\ quit' \subseteq Stoppable
        /\ main' \in {"running", "closing", "exited", "panicked"}
    BY <2>1 DEF IInv, CopyInv, MainInv
  <2>. QED BY <2>1, <2>2, CopiesUntouched
<1>2. CASE StartInput
  BY <1>2, StartInputIInv
<1>3. CASE StartAssigns \/ Main \/ TimePasses \/ \E i \in Sources : InputEnds(i)
  BY <1>3, MainIInv
<1>4. ASSUME NEW i \in Sources, CopyMulty(i) PROVE IInv'
  BY <1>4, ReadIInv, ReadEmptyIInv, ReadStoppedIInv, WriteIInv, CleanUpIInv DEF CopyMulty
<1>. QED BY <1>1, <1>2, <1>3, <1>4 DEF Next, Start

\* The inductive invariant of the emitter.
THEOREM Invariance == Spec => []IInv
<1>. QED BY InitIInv, NextIInv, PTL DEF Spec

\* What was written is a message that was read.
LEMMA WrittenWasRead ==
    ASSUME CopyInv, NEW i \in Sources, NEW o \in DOMAIN Outputs
    PROVE  ToSet(written[i][o]) \subseteq DOMAIN read[i]
<1>1. read[i] \in Seq(Entry) /\ SameSoFar(i) /\ (pc[i] = "writing" => read[i] # <<>>)
  BY DEF CopyInv, CopiesWell
<1>2. PICK base \in Seq(DOMAIN read[i]) :
        written[i][o] = IF pc[i] = "writing" /\ o < next[i]
                        THEN Append(base, Len(read[i])) ELSE base
  BY <1>1 DEF SameSoFar
<1>3. pc[i] = "writing" => Len(read[i]) \in DOMAIN read[i]
  BY <1>1, LenProperties, EmptySeq
<1>4. written[i][o] \in Seq(DOMAIN read[i])
  <2>1. CASE pc[i] = "writing" /\ o < next[i]
    <3>1. Append(base, Len(read[i])) \in Seq(DOMAIN read[i])
      BY <1>3, <2>1, AppendProperties
    <3>. QED BY <1>2, <2>1, <3>1
  <2>2. CASE ~(pc[i] = "writing" /\ o < next[i])
    BY <1>2, <2>2
  <2>. QED BY <2>1, <2>2
<1>5. \A k \in DOMAIN written[i][o] : written[i][o][k] \in DOMAIN read[i]
  BY <1>4, LenProperties, ElementOfSeq
<1>. QED BY <1>5 DEF ToSet

\* The state of main, of the copies and of the filters stays well typed, for any
\* plugins, traffic and clean-up.
THEOREM TypeCorrect == Spec => []TypeOK
<1>1. ASSUME IInv PROVE TypeOK
  <2>1. CopyInv /\ MainInv
    BY <1>1 DEF IInv
  <2>2. group \in 0..Len(Inputs)
    <3>1. group \in Nat /\ group <= started /\ started \in 0..Len(Inputs)
      BY <2>1, FS_CardinalityType DEF MainInv
    <3>. QED BY <3>1, InputsAndOutputs
  <2>3. pc \in [Sources -> {"none", "reading", "writing", "cleaning", "done"}]
    BY <2>1 DEF CopyInv, CopiesWell, Places
  <2>4. \A i \in Sources : \A o \in DOMAIN Outputs : ToSet(written[i][o]) \subseteq DOMAIN read[i]
    BY <2>1, WrittenWasRead
  <2>5. \A i \in Sources : /\ next[i] \in 1..(Len(Outputs) + 1)
                           /\ pc[i] = "writing" => next[i] \in DOMAIN Outputs
                           /\ count[i] \in Nat /\ cleaned[i] \in 0..MaxTime
    BY <2>1 DEF CopyInv, CopiesWell, FiltersWell
  <2>6. /\ main \in {"running", "closing", "exited", "panicked"}
        /\ started \in 0..Len(Inputs) /\ quit \subseteq Stoppable
    BY <2>1 DEF MainInv
  <2>7. \A i \in Sources : /\ next[i] \in 1..(Len(Outputs) + 1)
                           /\ pc[i] = "writing" => next[i] \in DOMAIN Outputs
                           /\ count[i] \in Nat /\ cleaned[i] \in 0..MaxTime
                           /\ \A o \in DOMAIN Outputs :
                                 ToSet(written[i][o]) \subseteq DOMAIN read[i]
    BY <2>4, <2>5
  <2>. QED BY <2>2, <2>3, <2>6, <2>7 DEF TypeOK
<1>. QED BY <1>1, Invariance, PTL

\* However often an id is filtered again, answered or cleaned up, the counter is
\* never below the number of requests that are remembered.
THEOREM CounterCovers == Spec => []CountCovers
<1>1. IInv => CountCovers
  BY DEF IInv, CopyInv, FiltersWell, CountCovers
<1>. QED BY <1>1, Invariance, PTL

\* A sequence whose elements another one begins with is its prefix.
LEMMA PrefixOf ==
    ASSUME NEW S, NEW q \in Seq(S), NEW a \in Seq(S), Len(q) <= Len(a),
           \A k \in 1..Len(q) : a[k] = q[k]
    PROVE  IsPrefix(q, a)
<1>. DEFINE n == Len(q)
            x == SubSeq(q, 1, n)
            y == SubSeq(a, 1, n)
<1>1. n \in Nat /\ Len(a) \in Nat /\ \A k \in 1..n : q[k] \in S /\ a[k] \in S
  BY LenProperties, ElementOfSeq
<1>2. x \in Seq(S) /\ Len(x) = n /\ \A k \in 1..n : x[k] = q[k]
  <2>1. 1 \in Int /\ n \in Int /\ \A k \in 1..n : q[k] \in S
    BY <1>1
  <2>2. /\ x \in Seq(S) /\ Len(x) = (IF 1 <= n THEN n - 1 + 1 ELSE 0)
        /\ \A k \in 1..(n - 1 + 1) : x[k] = q[1 + k - 1]
    BY <2>1, SubSeqProperties
  <2>. QED BY <1>1, <2>2
<1>3. y \in Seq(S) /\ Len(y) = n /\ \A k \in 1..n : y[k] = a[k]
  <2>1. 1 \in Int /\ n \in Int /\ \A k \in 1..n : a[k] \in S
    BY <1>1
  <2>2. /\ y \in Seq(S) /\ Len(y) = (IF 1 <= n THEN n - 1 + 1 ELSE 0)
        /\ \A k \in 1..(n - 1 + 1) : y[k] = a[1 + k - 1]
    BY <2>1, SubSeqProperties
  <2>. QED BY <1>1, <2>2
<1>4. x = y
  <2>. HIDE DEF x, y
  <2>1. \A k \in 1..Len(x) : x[k] = y[k]
    BY <1>1, <1>2, <1>3
  <2>. QED BY <1>2, <1>3, <2>1, SeqEqual
<1>. QED BY <1>4 DEF IsPrefix

\* "By default each output gets same traffic": all outputs get the same messages in
\* the same order, but for the one in hand, for any plugins and traffic.
THEOREM OutputsAgree == Spec => []SameTraffic
<1>1. ASSUME IInv PROVE SameTraffic
  <2>1. SUFFICES ASSUME NEW i \in Sources, NEW o \in DOMAIN Outputs, NEW u \in DOMAIN Outputs, o < u
                 PROVE  /\ IsPrefix(written[i][u], written[i][o])
                        /\ Len(written[i][o]) <= Len(written[i][u])
                                                 + (IF pc[i] = "writing" THEN 1 ELSE 0)
    BY DEF SameTraffic
  <2>2. read[i] \in Seq(Entry) /\ SameSoFar(i) /\ (pc[i] = "writing" => read[i] # <<>>)
        /\ next[i] \in 1..(Len(Outputs) + 1)
    BY <1>1 DEF IInv, CopyInv, CopiesWell
  <2>3. PICK base \in Seq(DOMAIN read[i]) :
          \A v \in DOMAIN Outputs :
              written[i][v] = IF pc[i] = "writing" /\ v < next[i]
                              THEN Append(base, Len(read[i])) ELSE base
    BY <2>2 DEF SameSoFar
  <2>4. Len(base) \in Nat /\ IsPrefix(base, base)
    BY LenProperties, PrefixOf
  <2>5. CASE pc[i] = "writing"
    <3>. DEFINE longer == Append(base, Len(read[i]))
    <3>1. Len(read[i]) \in DOMAIN read[i]
      BY <2>2, <2>5, LenProperties, EmptySeq
    <3>2. /\ longer \in Seq(DOMAIN read[i]) /\ Len(longer) = Len(base) + 1
          /\ \A k \in 1..Len(base) : longer[k] = base[k]
      <4>. DEFINE S == DOMAIN read[i]
                  e == Len(read[i])
      <4>1. base \in Seq(S) /\ e \in S
        BY <3>1
      <4>. HIDE DEF S, e
      <4>2. /\ Append(base, e) \in Seq(S) /\ Len(Append(base, e)) = Len(base) + 1
            /\ \A k \in 1..Len(base) : Append(base, e)[k] = base[k]
        BY <4>1, AppendProperties
      <4>. QED BY <4>2 DEF S, e
    <3>3. o \in Nat /\ u \in Nat
      BY InputsAndOutputs
    <3>4. /\ written[i][o] = IF o < next[i] THEN longer ELSE base
          /\ written[i][u] = IF u < next[i] THEN longer ELSE base
      BY <2>3, <2>5
    <3>. HIDE DEF longer
    <3>5. IsPrefix(base, longer) /\ IsPrefix(longer, longer)
      <4>1. Len(base) <= Len(longer) /\ Len(longer) <= Len(longer)
        BY <2>4, <3>2
      <4>. QED BY <3>2, <4>1, PrefixOf
    <3>6. CASE u < next[i]
      <4>1. o < next[i]
        BY <2>1, <2>2, <3>3, <3>6, InputsAndOutputs
      <4>2. written[i][o] = longer /\ written[i][u] = longer
        BY <3>4, <3>6, <4>1
      <4>3. Len(longer) \in Nat /\ Len(longer) <= Len(longer) + 1
        BY <2>4, <3>2
      <4>. QED BY <2>5, <3>5, <4>2, <4>3
    <3>7. CASE ~(u < next[i])
      BY <2>4, <2>5, <3>2, <3>4, <3>5, <3>7
    <3>. QED BY <3>6, <3>7
  <2>6. CASE pc[i] # "writing"
    <3>1. written[i][o] = base /\ written[i][u] = base
      BY <2>3, <2>6
    <3>. QED BY <2>4, <2>6, <3>1
  <2>. QED BY <2>5, <2>6
<1>. QED BY <1>1, Invariance, PTL

\* "wait for everything to stop": main exits only when no input that was started is
\* still copied, for any plugins and whichever of Start and Close comes first.
THEOREM MainWaits == Spec => WaitsForAll
<1>1. IInv /\ [Next]_vars =>
        [main = "closing" /\ main' = "exited" => \A i \in Sources : pc[i] \in {"none", "done"}]_vars
  <2>. SUFFICES ASSUME IInv, Next, main = "closing", main' = "exited", NEW i \in Sources
                PROVE  pc[i] \in {"none", "done"}
    OBVIOUS
  <2>1. WaitReturns
    BY DEF Next, Start, StartAssigns, StartInput, Main, Signal, CloseNext, TimePasses, InputEnds,
           CopyMulty, Read, ReadEmpty, ReadStopped, Write, CleanUp, program
  <2>2. IsFiniteSet(Running) /\ Cardinality(Running) = 0
    BY <2>1 DEF WaitReturns, IInv, MainInv
  <2>3. Running = {}
    BY <2>2, FS_EmptySet
  <2>. QED BY <2>3 DEF Running
<1>. QED BY <1>1, Invariance, PTL DEF Spec, WaitsForAll

-----------------------------------------------------------------------------
(***************************************************************************)
(* Responses are dropped with their requests, for any plugins, traffic and *)
(* clean-up: what is remembered of the filtered requests tells of each     *)
(* whether its response has come, unless it is older than GCAge.           *)
(***************************************************************************)

FilteredRequest(i, q) == MessageAt(i, q).type = "request" /\ ~Rewrite(MessageAt(i, q))

IsResponseTo(i, k, id) == MessageAt(i, k).type = "response" /\ MessageAt(i, k).id = id

\* A filtered request whose response has not come
Pending(i, q) ==
    /\ FilteredRequest(i, q)
    /\ \A k \in DOMAIN read[i] : k > q => ~IsResponseTo(i, k, MessageAt(i, q).id)

\* Of each pending request the id is remembered, with its time or a later one, or it is
\* old; and what is remembered is of a pending one.
Remembers(i) ==
    /\ \A id \in DOMAIN filtered[i] :
         /\ filtered[i][id] \in Nat
         /\ \E q \in DOMAIN read[i] : Pending(i, q) /\ MessageAt(i, q).id = id
    /\ \A q \in DOMAIN read[i] :
         /\ read[i][q].at <= now
         /\ Pending(i, q) =>
              \/ /\ MessageAt(i, q).id \in DOMAIN filtered[i]
                 /\ read[i][q].at <= filtered[i][MessageAt(i, q).id]
              \/ now - read[i][q].at > GCAge

\* A message goes to the outputs, or has gone to the first.
Passed(i, p) == p \in ToSet(written[i][1]) \/ (p = Len(read[i]) /\ pc[i] = "writing")

Paired(i, p) ==
    MessageAt(i, p).type = "response" =>
        /\ ~Passed(i, p) => Filtered(i, p) # {}
        /\ Passed(i, p) => \A q \in Filtered(i, p) : read[i][p].at - read[i][q].at > GCAge

PairInv == \A i \in Sources : Remembers(i) /\ \A p \in DOMAIN read[i] : Paired(i, p)

-----------------------------------------------------------------------------
(* Sequences. *)

\* What the messages read so far are.
LEMMA Entries ==
    ASSUME CopyInv, NEW i \in Sources
    PROVE  /\ read[i] \in Seq(Entry) /\ Len(read[i]) \in Nat /\ DOMAIN read[i] = 1..Len(read[i])
           /\ \A q \in DOMAIN read[i] : /\ read[i][q] \in Entry /\ read[i][q].at \in Nat
                                        /\ MessageAt(i, q) \in Message
           /\ now \in Nat /\ GCAge \in Nat
<1>1. read[i] \in Seq(Entry)
  BY DEF CopyInv, CopiesWell
<1>2. Len(read[i]) \in Nat /\ DOMAIN read[i] = 1..Len(read[i])
      /\ \A q \in DOMAIN read[i] : read[i][q] \in Entry
  BY <1>1, LenProperties, ElementOfSeq
<1>3. \A q \in DOMAIN read[i] : read[i][q].at \in Nat /\ MessageAt(i, q) \in Message
  BY <1>2, EmitterAssumption DEF Entry, MessageAt
<1>. QED BY <1>1, <1>2, <1>3, EmitterAssumption DEF CopyInv

\* What Append adds.
LEMMA AppendSet ==
    ASSUME NEW S, NEW s \in Seq(S), NEW x \in S
    PROVE  ToSet(Append(s, x)) = ToSet(s) \cup {x}
<1>. DEFINE t == Append(s, x)
<1>1. /\ Len(s) \in Nat /\ DOMAIN s = 1..Len(s) /\ DOMAIN t = 1..(Len(s) + 1)
      /\ \A k \in 1..Len(s) : t[k] = s[k]
      /\ t[Len(s) + 1] = x
  BY AppendProperties, LenProperties
<1>. HIDE DEF t
<1>2. \A k \in DOMAIN t : (k \in DOMAIN s /\ t[k] = s[k]) \/ t[k] = x
  BY <1>1
<1>3. \A k \in DOMAIN s : k \in DOMAIN t /\ t[k] = s[k]
  BY <1>1
<1>4. x \in ToSet(t)
  <2>1. Len(s) + 1 \in DOMAIN t
    BY <1>1
  <2>. QED BY <1>1, <2>1 DEF ToSet
<1>5. ToSet(t) = ToSet(s) \cup {x}
  BY <1>2, <1>3, <1>4 DEF ToSet
<1>. QED BY <1>5 DEF t

\* What one more message changes: of the requests before it, it may answer some.
LEMMA OneMoreRead ==
    ASSUME CopyInv, NEW i \in Sources, NEW e \in Entry, NEW n \in Nat, n = Len(read[i]),
           read'[i] = Append(read[i], e)
    PROVE  /\ DOMAIN read'[i] = 1..(n + 1) /\ Len(read'[i]) = n + 1
           /\ read'[i][n + 1] = e /\ MessageAt(i, n + 1)' = e.msg
           /\ \A q \in 1..n :
                /\ read'[i][q] = read[i][q] /\ MessageAt(i, q)' = MessageAt(i, q)
                /\ Filtered(i, q)' = Filtered(i, q)
                /\ Pending(i, q)' <=>
                     Pending(i, q)
                     /\ ~(e.msg.type = "response" /\ e.msg.id = MessageAt(i, q).id)
           /\ Pending(i, n + 1)' <=> e.msg.type = "request" /\ ~Rewrite(e.msg)
           /\ Filtered(i, n + 1)' =
                {q \in 1..n : Pending(i, q) /\ MessageAt(i, q).id = e.msg.id}
<1>1. /\ DOMAIN read[i] = 1..n
      /\ DOMAIN read'[i] = 1..(n + 1) /\ Len(read'[i]) = n + 1
      /\ read'[i][n + 1] = e /\ \A q \in 1..n : read'[i][q] = read[i][q]
  <2>1. read[i] \in Seq(Entry)
    BY Entries
  <2>. QED BY <2>1, AppendProperties, LenProperties
<1>2. ASSUME NEW q \in 1..n
      PROVE  MessageAt(i, q)' = MessageAt(i, q) /\ (FilteredRequest(i, q)' <=> FilteredRequest(i, q))
  <2>1. read'[i][q] = read[i][q]
    BY <1>1
  <2>. QED BY <2>1, Zenon DEF MessageAt, FilteredRequest, Rewrite
<1>3. MessageAt(i, n + 1)' = e.msg
  BY <1>1, Zenon DEF MessageAt
<1>4. ASSUME NEW p \in 1..n PROVE Filtered(i, p)' = Filtered(i, p)
  <2>1. ASSUME NEW q \in 1..(p - 1) PROVE Answered(i, q, p)' <=> Answered(i, q, p)
    <3>1. \A k \in (q + 1)..(p - 1) : k \in 1..n
      OBVIOUS
    <3>2. \A k \in (q + 1)..(p - 1) : MessageAt(i, k)' = MessageAt(i, k)
      BY <1>2, <3>1
    <3>3. MessageAt(i, p)' = MessageAt(i, p)
      BY <1>2
    <3>. QED BY <3>2, <3>3, Zenon DEF Answered
  <2>2. \A q \in 1..(p - 1) : q \in 1..n
    OBVIOUS
  <2>3. \A q \in 1..(p - 1) : /\ MessageAt(i, q)' = MessageAt(i, q)
                              /\ Answered(i, q, p)' <=> Answered(i, q, p)
    BY <1>2, <2>1, <2>2
  <2>4. MessageAt(i, p)' = MessageAt(i, p)
    BY <1>2
  <2>. QED BY <2>3, <2>4, Zenon DEF Filtered, Rewrite
<1>5. ASSUME NEW q \in 1..n
      PROVE  Pending(i, q)' <=>
                Pending(i, q) /\ ~(e.msg.type = "response" /\ e.msg.id = MessageAt(i, q).id)
  <2>1. MessageAt(i, q)' = MessageAt(i, q) /\ (FilteredRequest(i, q)' <=> FilteredRequest(i, q))
    BY <1>2
  <2>2. Pending(i, q)' <=> /\ FilteredRequest(i, q)
                           /\ \A k \in 1..(n + 1) : k > q => ~IsResponseTo(i, k, MessageAt(i, q).id)'
    BY <1>1, <2>1, Zenon DEF Pending, IsResponseTo
  <2>3. \A k \in 1..n : IsResponseTo(i, k, MessageAt(i, q).id)' <=> IsResponseTo(i, k, MessageAt(i, q).id)
    BY <1>2, <2>1, Zenon DEF IsResponseTo
  <2>4. IsResponseTo(i, n + 1, MessageAt(i, q).id)' <=>
             e.msg.type = "response" /\ e.msg.id = MessageAt(i, q).id
    BY <1>3, <2>1, Zenon DEF IsResponseTo
  <2>5. /\ \A k \in 1..(n + 1) : k \in 1..n \/ k = n + 1
        /\ \A k \in 1..n : k \in 1..(n + 1)
        /\ n + 1 \in 1..(n + 1) /\ n + 1 > q
    OBVIOUS
  <2>6. Pending(i, q) <=> /\ FilteredRequest(i, q)
                          /\ \A k \in 1..n : k > q => ~IsResponseTo(i, k, MessageAt(i, q).id)
    BY <1>1, Zenon DEF Pending
  <2>. QED BY <2>2, <2>3, <2>4, <2>5, <2>6, Zenon
<1>6. Pending(i, n + 1)' <=> e.msg.type = "request" /\ ~Rewrite(e.msg)
  <2>1. \A k \in 1..(n + 1) : ~(k > n + 1)
    OBVIOUS
  <2>2. FilteredRequest(i, n + 1)' <=> e.msg.type = "request" /\ ~Rewrite(e.msg)
    BY <1>3, Zenon DEF FilteredRequest, Rewrite
  <2>. QED BY <1>1, <2>1, <2>2, Zenon DEF Pending
<1>7. Filtered(i, n + 1)' = {q \in 1..n : Pending(i, q) /\ MessageAt(i, q).id = e.msg.id}
  <2>1. n + 1 - 1 = n
    OBVIOUS
  <2>2. ASSUME NEW q \in 1..n, MessageAt(i, q).id = e.msg.id
        PROVE  FilteredRequest(i, q) /\ ~Answered(i, q, n + 1)' <=> Pending(i, q)
    <3>1. \A k \in 1..n : k > q <=> k \in (q + 1)..n
      OBVIOUS
    <3>2. \A k \in (q + 1)..n : k \in 1..n
      OBVIOUS
    <3>3. \A k \in (q + 1)..n : MessageAt(i, k)' = MessageAt(i, k)
      BY <1>2, <3>2
    <3>4. Answered(i, q, n + 1)' <=>
             \E k \in (q + 1)..n : MessageAt(i, k).type = "response" /\ MessageAt(i, k).id = e.msg.id
      <4>1. (q + 1)..(n + 1 - 1) = (q + 1)..n
        BY <2>1
      <4>2. Answered(i, q, n + 1)' <=>
               \E k \in (q + 1)..n : /\ MessageAt(i, k)'.type = "response"
                                   /\ MessageAt(i, k)'.id = e.msg.id
        BY <1>3, <4>1 DEF Answered
      <4>. QED BY <3>3, <4>2, Zenon
    <3>5. Pending(i, q) <=> /\ FilteredRequest(i, q)
                            /\ \A k \in 1..n : k > q =>
                                  ~(MessageAt(i, k).type = "response" /\ MessageAt(i, k).id = e.msg.id)
      BY <1>1, <2>2, Zenon DEF Pending, IsResponseTo
    <3>. QED BY <3>1, <3>2, <3>4, <3>5, Zenon
  <2>3. Filtered(i, n + 1)' =
           {q \in 1..n : /\ MessageAt(i, q)'.type = "request" /\ ~Rewrite(MessageAt(i, q))'
                         /\ MessageAt(i, q)'.id = e.msg.id
                         /\ ~Answered(i, q, n + 1)'}
    <3>1. 1..(n + 1 - 1) = 1..n
      BY <2>1
    <3>. QED BY <1>3, <3>1 DEF Filtered
  <2>4. ASSUME NEW q \in 1..n
        PROVE  MessageAt(i, q)' = MessageAt(i, q)
               /\ (MessageAt(i, q)'.type = "request" /\ ~Rewrite(MessageAt(i, q))' <=> FilteredRequest(i, q))
    BY <1>2, Zenon DEF FilteredRequest, Rewrite
  <2>. QED BY <2>2, <2>3, <2>4, Zenon
<1>. QED BY <1>1, <1>2, <1>3, <1>4, <1>5, <1>6, <1>7, Zenon

-----------------------------------------------------------------------------
(* What leaves the messages alone. *)

\* The pairs stay when nothing is read and nothing passes.
LEMMA PairedStays ==
    ASSUME NEW i \in Sources, read'[i] = read[i],
           \A p \in DOMAIN read[i] : Passed(i, p)' <=> Passed(i, p),
           \A p \in DOMAIN read[i] : Paired(i, p)
    PROVE  \A p \in DOMAIN read'[i] : Paired(i, p)'
<1>1. ASSUME NEW p \in DOMAIN read[i] PROVE Paired(i, p)'
  <2>1. Filtered(i, p)' = Filtered(i, p)
    BY DEF Filtered, MessageAt, Answered
  <2>2. MessageAt(i, p)' = MessageAt(i, p)
    BY DEF MessageAt
  <2>3. Passed(i, p)' <=> Passed(i, p)
    OBVIOUS
  <2>. QED BY <2>1, <2>2, <2>3 DEF Paired
<1>. QED BY <1>1

\* What is remembered stays as good while time passes.
LEMMA RemembersStays ==
    ASSUME CopyInv, NEW i \in Sources, read'[i] = read[i], filtered'[i] = filtered[i],
           now' \in Nat, now' >= now, Remembers(i)
    PROVE  Remembers(i)'
<1>1. \A q : (Pending(i, q)' <=> Pending(i, q)) /\ MessageAt(i, q)' = MessageAt(i, q)
  BY DEF Pending, FilteredRequest, IsResponseTo, MessageAt
<1>2. ASSUME NEW q \in DOMAIN read[i]
      PROVE  /\ read[i][q].at <= now'
             /\ now - read[i][q].at > GCAge => now' - read[i][q].at > GCAge
  BY Entries DEF Remembers
<1>. QED BY <1>1, <1>2 DEF Remembers

\* An input of which nothing changes, but for the time.
LEMMA PairUntouched ==
    ASSUME CopyInv, PairInv, NEW i \in Sources,
           read'[i] = read[i], filtered'[i] = filtered[i], written'[i] = written[i],
           pc'[i] = "writing" <=> pc[i] = "writing", now' \in Nat, now' >= now
    PROVE  Remembers(i)' /\ \A p \in DOMAIN read'[i] : Paired(i, p)'
<1>1. \A p \in DOMAIN read[i] : Passed(i, p)' <=> Passed(i, p)
  BY DEF Passed
<1>. QED BY <1>1, PairedStays, RemembersStays DEF PairInv

-----------------------------------------------------------------------------
(* The steps of a CopyMulty. *)

\* A message is read: if it is a response, and passes, then its request did, or is old;
\* if it is dropped, its request was.
LEMMA ReadPairs ==
    ASSUME CopyInv, PairInv, NEW i \in Sources, Read(i)
    PROVE  Remembers(i)' /\ \A p \in DOMAIN read'[i] : Paired(i, p)'
<1>1. /\ pc[i] = "reading" /\ i \in Stoppable
      /\ UNCHANGED <<now, written>>
  BY DEF Read
<1>2. PICK msg \in Traffic[i] :
        /\ read' = [read EXCEPT ![i] = Append(@, [msg |-> msg, at |-> now])]
        /\ IF msg.type = "response" THEN FilterResponse(i, msg.id)
           ELSE IF Rewrite(msg) THEN Pass(i)
           ELSE FilterRequest(i, msg.id)
  BY DEF Read
<1>3. [msg |-> msg, at |-> now] \in Entry /\ msg.type \in {"request", "response"}
  <2>1. msg \in Message
    BY <1>1, EmitterAssumption
  <2>. QED BY <2>1 DEF Entry, CopyInv, Message
<1>4. PICK e \in Entry : e = [msg |-> msg, at |-> now]
  BY <1>3
<1>5. read'[i] = Append(read[i], e) /\ e.msg = msg /\ e.at = now
  BY <1>2, <1>4 DEF CopyInv
<1>6. /\ DOMAIN read[i] = 1..Len(read[i]) /\ now \in Nat /\ GCAge \in Nat
      /\ \A q \in DOMAIN read[i] : read[i][q].at \in Nat
  BY Entries
<1>. PICK n \in Nat : n = Len(read[i])
  BY Entries
<1>7. /\ DOMAIN read'[i] = 1..(n + 1) /\ Len(read'[i]) = n + 1
      /\ MessageAt(i, n + 1)' = msg /\ read'[i][n + 1].at = now
      /\ \A q \in DOMAIN read[i] :
           /\ read'[i][q] = read[i][q] /\ MessageAt(i, q)' = MessageAt(i, q)
           /\ Filtered(i, q)' = Filtered(i, q)
           /\ Pending(i, q)' <=>
                Pending(i, q) /\ ~(msg.type = "response" /\ msg.id = MessageAt(i, q).id)
      /\ Pending(i, n + 1)' <=> msg.type = "request" /\ ~Rewrite(msg)
      /\ Filtered(i, n + 1)' = {q \in DOMAIN read[i] : Pending(i, q) /\ MessageAt(i, q).id = msg.id}
  <2>1. /\ DOMAIN read'[i] = 1..(n + 1) /\ Len(read'[i]) = n + 1
        /\ read'[i][n + 1] = e /\ MessageAt(i, n + 1)' = e.msg
        /\ \A q \in 1..n :
             /\ read'[i][q] = read[i][q] /\ MessageAt(i, q)' = MessageAt(i, q)
             /\ Filtered(i, q)' = Filtered(i, q)
             /\ Pending(i, q)' <=>
                  Pending(i, q)
                  /\ ~(e.msg.type = "response" /\ e.msg.id = MessageAt(i, q).id)
        /\ Pending(i, n + 1)' <=> e.msg.type = "request" /\ ~Rewrite(e.msg)
        /\ Filtered(i, n + 1)' =
             {q \in 1..n : Pending(i, q) /\ MessageAt(i, q).id = e.msg.id}
    BY <1>5, OneMoreRead
  <2>. QED BY <1>5, <1>6, <2>1, Zenon
<1>8. \A q \in DOMAIN read'[i] : q \in DOMAIN read[i] \/ q = n + 1
  BY <1>6, <1>7
<1>9. /\ \A q \in DOMAIN read[i] : q \in DOMAIN read'[i]
      /\ n + 1 \in DOMAIN read'[i] /\ n + 1 \notin DOMAIN read[i]
  BY <1>6, <1>7
<1>10. Remembers(i) /\ \A p \in DOMAIN read[i] : Paired(i, p)
  BY DEF PairInv
<1>11. n + 1 \notin ToSet(written[i][1]) /\ written' = written
  <2>1. 1 \in DOMAIN Outputs
    BY InputsAndOutputs
  <2>2. ToSet(written[i][1]) \subseteq DOMAIN read[i]
    BY <2>1, WrittenWasRead
  <2>. QED BY <1>1, <1>9, <2>2
\* The messages before this one
<1>12. ASSUME NEW p \in DOMAIN read[i] PROVE Paired(i, p)'
  <2>1. Passed(i, p)' <=> Passed(i, p)
    <3>1. p # n + 1
      BY <1>9
    <3>. QED BY <1>1, <1>7, <1>11, <3>1 DEF Passed
  <2>2. \A q \in Filtered(i, p) : q \in DOMAIN read[i]
    BY <1>6 DEF Filtered
  <2>3. \A q \in Filtered(i, p) : read'[i][q] = read[i][q]
    BY <1>7, <2>2
  <2>. QED BY <1>7, <1>10, <2>1, <2>3 DEF Paired
<1>13. \A q \in DOMAIN read'[i] : read'[i][q].at <= now'
  BY <1>1, <1>6, <1>7, <1>8, <1>10 DEF Remembers
\* What is remembered, when it stays: this message answers none of it
<1>14. ASSUME NEW f \in SUBSET DOMAIN filtered[i],
              filtered'[i] = [id \in f |-> filtered[i][id]],
              msg.type = "response" => f = DOMAIN filtered[i] \ {msg.id},
              msg.type # "response" => f = DOMAIN filtered[i],
              ~Pending(i, n + 1)'
       PROVE  Remembers(i)'
  <2>1. DOMAIN filtered'[i] = f /\ \A id \in f : filtered'[i][id] = filtered[i][id]
    BY <1>14
  <2>2. ASSUME NEW id \in DOMAIN filtered'[i]
        PROVE  /\ filtered'[i][id] \in Nat
               /\ \E q \in DOMAIN read'[i] : Pending(i, q)' /\ MessageAt(i, q)'.id = id
    <3>1. id \in DOMAIN filtered[i] /\ ~(msg.type = "response" /\ msg.id = id)
      BY <1>14, <2>1, <2>2
    <3>2. PICK q \in DOMAIN read[i] : Pending(i, q) /\ MessageAt(i, q).id = id
      BY <1>10, <3>1 DEF Remembers
    <3>3. Pending(i, q)' /\ MessageAt(i, q)'.id = id /\ q \in DOMAIN read'[i]
      BY <1>7, <1>9, <3>1, <3>2
    <3>4. filtered'[i][id] \in Nat
      BY <1>10, <2>1, <2>2, <3>1 DEF Remembers
    <3>. QED BY <3>3, <3>4
  <2>3. ASSUME NEW q \in DOMAIN read'[i], Pending(i, q)'
        PROVE  \/ /\ MessageAt(i, q)'.id \in DOMAIN filtered'[i]
                  /\ read'[i][q].at <= filtered'[i][MessageAt(i, q)'.id]
               \/ now' - read'[i][q].at > GCAge
    <3>1. q \in DOMAIN read[i]
      BY <1>8, <1>14, <2>3
    <3>2. Pending(i, q) /\ ~(msg.type = "response" /\ msg.id = MessageAt(i, q).id)
      BY <1>7, <2>3, <3>1
    <3>3. \/ /\ MessageAt(i, q).id \in DOMAIN filtered[i]
             /\ read[i][q].at <= filtered[i][MessageAt(i, q).id]
          \/ now - read[i][q].at > GCAge
      BY <1>10, <3>1, <3>2 DEF Remembers
    <3>4. MessageAt(i, q).id \in DOMAIN filtered[i] => MessageAt(i, q).id \in f
      BY <1>14, <3>2
    <3>. QED BY <1>1, <1>7, <2>1, <3>1, <3>3, <3>4
  <2>. QED BY <1>13, <2>2, <2>3 DEF Remembers
<1>15. ASSUME Remembers(i)', Paired(i, n + 1)' PROVE Remembers(i)' /\ \A p \in DOMAIN read'[i] : Paired(i, p)'
  BY <1>8, <1>12, <1>15
<1>16. CASE msg.type = "response"
  <2>1. FilterResponse(i, msg.id) /\ ~Pending(i, n + 1)'
    BY <1>2, <1>7, <1>16
  <2>2. CASE msg.id \in DOMAIN filtered[i]
    <3>1. filtered'[i] = Without(filtered[i], {msg.id}) /\ pc' = pc
      BY <2>1, <2>2 DEF FilterResponse, CopyInv
    <3>2. Remembers(i)'
      BY <1>14, <1>16, <2>1, <3>1 DEF Without
    <3>3. PICK q \in DOMAIN read[i] : Pending(i, q) /\ MessageAt(i, q).id = msg.id
      BY <1>10, <2>2 DEF Remembers
    <3>4. Filtered(i, n + 1)' # {}
      BY <1>7, <3>3
    <3>5. ~Passed(i, n + 1)'
      BY <1>1, <1>11, <3>1 DEF Passed
    <3>6. Paired(i, n + 1)'
      BY <3>4, <3>5 DEF Paired
    <3>. QED BY <1>15, <3>2, <3>6
  <2>3. CASE msg.id \notin DOMAIN filtered[i]
    <3>1. filtered' = filtered /\ pc'[i] = "writing"
      BY <2>1, <2>3 DEF FilterResponse, Pass, CopyInv
    <3>2. Remembers(i)'
      <4>1. \A q \in DOMAIN read'[i] : Pending(i, q)' =>
               q \in DOMAIN read[i] /\ Pending(i, q) /\ MessageAt(i, q).id # msg.id
        BY <1>7, <1>8, <1>16, <2>1
      <4>2. ASSUME NEW id \in DOMAIN filtered'[i]
            PROVE  /\ filtered'[i][id] \in Nat
                   /\ \E q \in DOMAIN read'[i] : Pending(i, q)' /\ MessageAt(i, q)'.id = id
        <5>1. PICK q \in DOMAIN read[i] : Pending(i, q) /\ MessageAt(i, q).id = id
          BY <1>10, <3>1 DEF Remembers
        <5>2. Pending(i, q)' /\ MessageAt(i, q)'.id = id /\ q \in DOMAIN read'[i]
          BY <1>7, <1>9, <2>3, <3>1, <5>1
        <5>. QED BY <1>10, <3>1, <5>2 DEF Remembers
      <4>3. ASSUME NEW q \in DOMAIN read'[i], Pending(i, q)'
            PROVE  \/ /\ MessageAt(i, q)'.id \in DOMAIN filtered'[i]
                      /\ read'[i][q].at <= filtered'[i][MessageAt(i, q)'.id]
                   \/ now' - read'[i][q].at > GCAge
        BY <1>1, <1>7, <1>10, <3>1, <4>1, <4>3 DEF Remembers
      <4>. QED BY <1>13, <4>2, <4>3 DEF Remembers
    <3>3. ASSUME NEW q \in Filtered(i, n + 1)' PROVE read'[i][n + 1].at - read'[i][q].at > GCAge
      <4>1. q \in DOMAIN read[i] /\ Pending(i, q) /\ MessageAt(i, q).id = msg.id
        BY <1>7, <3>3
      <4>2. now - read[i][q].at > GCAge
        BY <1>10, <2>3, <4>1 DEF Remembers
      <4>. QED BY <1>7, <4>1, <4>2
    <3>4. Passed(i, n + 1)'
      BY <1>7, <3>1 DEF Passed
    <3>5. Paired(i, n + 1)'
      BY <3>3, <3>4 DEF Paired
    <3>. QED BY <1>15, <3>2, <3>5
  <2>. QED BY <2>2, <2>3
<1>17. CASE msg.type # "response"
  <2>1. Paired(i, n + 1)'
    BY <1>7, <1>17 DEF Paired
  <2>2. \A q \in DOMAIN read[i] : Pending(i, q)' <=> Pending(i, q)
    BY <1>7, <1>17
  <2>3. \A id \in DOMAIN filtered[i] : /\ filtered[i][id] \in Nat
            /\ \E q \in DOMAIN read'[i] : Pending(i, q)' /\ MessageAt(i, q)'.id = id
    <3>1. ASSUME NEW id \in DOMAIN filtered[i]
          PROVE  \E q \in DOMAIN read'[i] : Pending(i, q)' /\ MessageAt(i, q)'.id = id
      <4>1. PICK q \in DOMAIN read[i] : Pending(i, q) /\ MessageAt(i, q).id = id
        BY <1>10 DEF Remembers
      <4>2. Pending(i, q)' /\ MessageAt(i, q)'.id = id /\ q \in DOMAIN read'[i]
        BY <1>7, <1>9, <2>2, <4>1
      <4>. QED BY <4>2
    <3>. QED BY <1>10, <3>1 DEF Remembers
  <2>4. CASE Rewrite(msg)
    <3>1. filtered' = filtered /\ ~Pending(i, n + 1)'
      BY <1>2, <1>7, <1>17, <2>4 DEF Pass
    <3>2. ASSUME NEW q \in DOMAIN read'[i], Pending(i, q)'
          PROVE  \/ /\ MessageAt(i, q)'.id \in DOMAIN filtered'[i]
                    /\ read'[i][q].at <= filtered'[i][MessageAt(i, q)'.id]
                 \/ now' - read'[i][q].at > GCAge
      <4>1. q \in DOMAIN read[i] /\ Pending(i, q)
        BY <1>8, <2>2, <3>1, <3>2
      <4>. QED BY <1>1, <1>7, <1>10, <3>1, <4>1 DEF Remembers
    <3>3. Remembers(i)'
      BY <1>13, <2>3, <3>1, <3>2 DEF Remembers
    <3>. QED BY <1>15, <2>1, <3>3
  <2>5. CASE ~Rewrite(msg)
    <3>1. filtered'[i] = With(filtered[i], msg.id, now) /\ Pending(i, n + 1)'
      BY <1>2, <1>3, <1>7, <1>17, <2>5 DEF FilterRequest, CopyInv
    <3>2. /\ DOMAIN filtered'[i] = DOMAIN filtered[i] \cup {msg.id}
          /\ filtered'[i][msg.id] = now
          /\ \A id \in DOMAIN filtered[i] : id # msg.id => filtered'[i][id] = filtered[i][id]
      BY <3>1 DEF With
    <3>3. ASSUME NEW id \in DOMAIN filtered'[i]
          PROVE  /\ filtered'[i][id] \in Nat
                 /\ \E q \in DOMAIN read'[i] : Pending(i, q)' /\ MessageAt(i, q)'.id = id
      <4>1. CASE id = msg.id
        BY <1>6, <1>7, <1>9, <3>1, <3>2, <4>1
      <4>2. CASE id # msg.id
        <5>1. id \in DOMAIN filtered[i]
          BY <3>2, <3>3, <4>2
        <5>. QED BY <2>3, <3>2, <4>2, <5>1
      <4>. QED BY <4>1, <4>2
    <3>4. ASSUME NEW q \in DOMAIN read'[i], Pending(i, q)'
          PROVE  \/ /\ MessageAt(i, q)'.id \in DOMAIN filtered'[i]
                    /\ read'[i][q].at <= filtered'[i][MessageAt(i, q)'.id]
                 \/ now' - read'[i][q].at > GCAge
      <4>1. CASE MessageAt(i, q)'.id = msg.id
        BY <1>1, <1>13, <3>2, <3>4, <4>1
      <4>2. CASE MessageAt(i, q)'.id # msg.id
        <5>1. q \in DOMAIN read[i] /\ Pending(i, q) /\ MessageAt(i, q)'.id = MessageAt(i, q).id
          BY <1>7, <1>8, <2>2, <3>4, <4>2
        <5>2. read'[i][q] = read[i][q]
          BY <1>7, <5>1
        <5>. QED BY <1>1, <1>10, <3>2, <4>2, <5>1, <5>2 DEF Remembers
      <4>. QED BY <4>1, <4>2
    <3>5. Remembers(i)'
      BY <1>13, <3>3, <3>4 DEF Remembers
    <3>. QED BY <1>15, <2>1, <3>5
  <2>. QED BY <2>4, <2>5
<1>. QED BY <1>16, <1>17

\* A message that is written had passed before.
LEMMA WritePairs ==
    ASSUME CopyInv, PairInv, NEW i \in Sources, Write(i)
    PROVE  Remembers(i)' /\ \A p \in DOMAIN read'[i] : Paired(i, p)'
<1>1. /\ pc[i] = "writing" /\ pc'[i] \in {"cleaning", "writing"}
      /\ written' = [written EXCEPT ![i][next[i]] = Append(@, Len(read[i]))]
      /\ UNCHANGED <<now, read, filtered>>
  BY DEF Write, filter, CopyInv
<1>2. /\ read[i] \in Seq(Entry) /\ read[i] # <<>>
      /\ next[i] \in DOMAIN Outputs /\ SameSoFar(i)
      /\ written = [j \in Sources |-> [o \in DOMAIN Outputs |-> written[j][o]]]
  BY <1>1 DEF CopyInv, CopiesWell
<1>3. 1 \in DOMAIN Outputs /\ next[i] \in Nat /\ next[i] >= 1
  BY <1>2, InputsAndOutputs
<1>4. PICK x \in DOMAIN read[i] : x = Len(read[i])
  BY <1>2, LenProperties, EmptySeq
<1>5. PICK base \in Seq(DOMAIN read[i]) :
        \A o \in DOMAIN Outputs :
            written[i][o] = IF o < next[i] THEN Append(base, x) ELSE base
  BY <1>1, <1>2, <1>4 DEF SameSoFar
<1>6. ToSet(Append(base, x)) = ToSet(base) \cup {x}
  BY AppendSet
<1>7. ToSet(written'[i][1]) = ToSet(base) \cup {x}
  <2>1. CASE next[i] = 1
    <3>1. written'[i][1] = Append(written[i][1], x)
      BY <1>1, <1>2, <1>4, <2>1
    <3>2. written[i][1] = base
      BY <1>3, <1>5, <2>1
    <3>. QED BY <1>6, <3>1, <3>2
  <2>2. CASE next[i] # 1
    <3>1. written'[i][1] = written[i][1]
      BY <1>1, <1>2, <1>3, <2>2
    <3>2. 1 < next[i]
      BY <1>3, <2>2
    <3>3. written[i][1] = Append(base, x)
      BY <1>3, <1>5, <3>2, Zenon
    <3>. QED BY <1>6, <3>1, <3>3
  <2>. QED BY <2>1, <2>2
<1>8. ToSet(written[i][1]) \cup {x} = ToSet(base) \cup {x}
  <2>1. written[i][1] = Append(base, x) \/ written[i][1] = base
    BY <1>3, <1>5
  <2>. QED BY <1>6, <2>1
<1>9. \A p \in DOMAIN read[i] : Passed(i, p)' <=> Passed(i, p)
  BY <1>1, <1>4, <1>7, <1>8 DEF Passed
<1>10. Remembers(i) /\ \A p \in DOMAIN read[i] : Paired(i, p)
  BY DEF PairInv
<1>11. now' \in Nat /\ now' >= now
  BY <1>1, Entries
<1>. QED BY <1>1, <1>9, <1>10, <1>11, PairedStays, RemembersStays

\* The clean-up forgets only requests that are old.
LEMMA CleanUpPairs ==
    ASSUME CopyInv, PairInv, NEW i \in Sources, CleanUp(i)
    PROVE  Remembers(i)' /\ \A p \in DOMAIN read'[i] : Paired(i, p)'
<1>1. /\ pc[i] = "cleaning" /\ pc'[i] = "reading"
      /\ UNCHANGED <<now, read, written>>
  BY DEF CleanUp, CopyInv
<1>2. filtered'[i] = filtered[i] \/ filtered'[i] = Without(filtered[i], Old(i))
  BY DEF CleanUp, CopyInv, filter
<1>3. CASE filtered'[i] = filtered[i]
  <2>1. now' \in Nat /\ now' >= now
    BY <1>1, Entries
  <2>. QED BY <1>1, <1>3, <2>1, PairUntouched
<1>4. CASE filtered'[i] = Without(filtered[i], Old(i))
  <2>1. Remembers(i) /\ \A p \in DOMAIN read[i] : Paired(i, p)
    BY DEF PairInv
  <2>2. \A p \in DOMAIN read[i] : Passed(i, p)' <=> Passed(i, p)
    BY <1>1 DEF Passed
  <2>3. \A p \in DOMAIN read'[i] : Paired(i, p)'
    BY <1>1, <2>1, <2>2, PairedStays
  <2>4. \A q : (Pending(i, q)' <=> Pending(i, q)) /\ MessageAt(i, q)' = MessageAt(i, q)
    BY <1>1 DEF Pending, FilteredRequest, IsResponseTo, MessageAt
  <2>5. /\ DOMAIN filtered'[i] = DOMAIN filtered[i] \ Old(i)
        /\ \A id \in DOMAIN filtered'[i] : filtered'[i][id] = filtered[i][id]
    BY <1>4 DEF Without
  <2>6. ASSUME NEW q \in DOMAIN read[i], Pending(i, q)
        PROVE  \/ /\ MessageAt(i, q).id \in DOMAIN filtered'[i]
                  /\ read[i][q].at <= filtered'[i][MessageAt(i, q).id]
               \/ now - read[i][q].at > GCAge
    <3>. DEFINE id == MessageAt(i, q).id
                a == read[i][q].at
    <3>1. CASE id \in Old(i) /\ a <= filtered[i][id]
      <4>1. now - filtered[i][id] > GCAge /\ filtered[i][id] \in Nat
        BY <2>1, <3>1 DEF Old, Remembers
      <4>2. a \in Nat /\ now \in Nat /\ GCAge \in Nat
        BY Entries
      <4>. HIDE DEF a
      <4>3. now - a > GCAge
        BY <3>1, <4>1, <4>2
      <4>. QED BY <4>3 DEF a
    <3>2. (id \in DOMAIN filtered[i] /\ a <= filtered[i][id]) \/ now - a > GCAge
      BY <2>1, <2>6 DEF Remembers
    <3>. QED BY <2>5, <3>1, <3>2
  <2>7. Remembers(i)'
    BY <1>1, <2>1, <2>4, <2>5, <2>6 DEF Remembers
  <2>. QED BY <2>3, <2>7
<1>. QED BY <1>2, <1>3, <1>4

-----------------------------------------------------------------------------
\* Nothing was read at the start.
LEMMA InitPairs == Init => PairInv
<1>. SUFFICES ASSUME Init, NEW i \in Sources
              PROVE  Remembers(i) /\ \A p \in DOMAIN read[i] : Paired(i, p)
  BY DEF PairInv
<1>1. DOMAIN read[i] = {} /\ DOMAIN filtered[i] = {}
  BY DEF Init
<1>. QED BY <1>1 DEF Remembers

\* Every step keeps the pairs.
LEMMA NextPairs == IInv /\ PairInv /\ [Next]_vars => PairInv'
<1>. SUFFICES ASSUME IInv, CopyInv, CopyInv', PairInv, [Next]_vars, NEW j \in Sources
              PROVE  Remembers(j)' /\ \A p \in DOMAIN read'[j] : Paired(j, p)'
  BY NextIInv DEF IInv, PairInv
<1>1. now \in Nat /\ now' \in Nat
  BY EmitterAssumption DEF CopyInv
<1>2. CASE UNCHANGED <<pc, read, filtered, written>> /\ now' >= now
  BY <1>1, <1>2, PairUntouched
<1>3. CASE UNCHANGED vars
  BY <1>1, <1>2, <1>3 DEF vars, filter
<1>4. CASE StartAssigns \/ Main \/ TimePasses \/ \E i \in Sources : InputEnds(i)
  BY <1>1, <1>2, <1>4 DEF StartAssigns, Main, Signal, CloseNext, WaitReturns, TimePasses,
                         InputEnds, filter
<1>5. CASE StartInput
  <2>1. /\ UNCHANGED <<now, read, filtered, written>>
        /\ pc' = [pc EXCEPT ![Inputs[started + 1]] = "reading"]
    BY <1>5 DEF StartInput
  <2>2. CASE pc'[j] = pc[j]
    BY <1>1, <2>1, <2>2, PairUntouched
  <2>3. CASE pc'[j] # pc[j]
    <3>1. pc'[j] = "reading" /\ j = Inputs[started + 1]
      BY <2>1, <2>3 DEF CopyInv
    <3>2. started + 1 \in DOMAIN Inputs /\ started + 1 > started
      BY <1>5, InputsAndOutputs DEF StartInput, IInv, MainInv
    <3>3. pc[j] = "none"
      BY <3>1, <3>2 DEF IInv, MainInv
    <3>. QED BY <1>1, <2>1, <3>1, <3>3, PairUntouched
  <2>. QED BY <2>2, <2>3
<1>6. ASSUME NEW i \in Sources, CopyMulty(i), i # j
      PROVE  Remembers(j)' /\ \A p \in DOMAIN read'[j] : Paired(j, p)'
  <2>1. /\ read'[j] = read[j] /\ filtered'[j] = filtered[j] /\ written'[j] = written[j]
        /\ pc'[j] = pc[j] /\ now' = now
    BY <1>6 DEF CopyMulty, Read, ReadEmpty, ReadStopped, Write, CleanUp, filter, FilterResponse,
                FilterRequest, Pass, CopyInv
  <2>. QED BY <1>1, <2>1, PairUntouched
<1>7. CASE CopyMulty(j)
  <2>1. CASE ReadEmpty(j) \/ ReadStopped(j)
    <3>1. /\ UNCHANGED <<now, read, filtered, written>>
          /\ pc[j] = "reading" /\ pc'[j] # "writing"
      BY <2>1 DEF ReadEmpty, ReadStopped, filter, CopyInv
    <3>. QED BY <1>1, <3>1, PairUntouched
  <2>. QED BY <1>7, <2>1, ReadPairs, WritePairs, CleanUpPairs DEF CopyMulty
<1>. QED BY <1>3, <1>4, <1>5, <1>6, <1>7 DEF Next, Start

\* The inductive invariant: what is remembered tells of every filtered request whether
\* its response has come, unless it is old.
THEOREM PairsInvariant == Spec => []PairInv
<1>. QED BY InitPairs, NextPairs, Invariance, PTL DEF Spec

\* A response is dropped only if its request was, and it is, unless the request is older
\* than GCAge, for any plugins, traffic and clean-up.
THEOREM PairsAreDropped == Spec => []DropsPairs
<1>1. ASSUME PairInv PROVE DropsPairs
  BY <1>1 DEF PairInv, Paired, Passed, DropsPairs
<1>. QED BY <1>1, PairsInvariant, PTL
=============================================================================
