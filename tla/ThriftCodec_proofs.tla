------------------------- MODULE ThriftCodec_proofs -------------------------
(***************************************************************************)
(* The stack of the Thrift decoder agrees with its state, what it forwards *)
(* is what it has read, and an error in a message is final: for every      *)
(* depth of nesting and every size of containers.                          *)
(***************************************************************************)
EXTENDS ThriftCodec, SequenceTheorems, TLAPS

----------------------------------------------------------------------------
(* Pushing, popping and counting on a nested stack.                        *)

\* What Append does to a stack.
LEMMA Push ==
    ASSUME NEW s \in Seq(Frames), NEW f \in Frames
    PROVE  /\ Append(s, f) \in Seq(Frames)
           /\ Len(Append(s, f)) = Len(s) + 1
           /\ Append(s, f)[Len(s) + 1] = f
           /\ \A i \in 1..Len(s) : Append(s, f)[i] = s[i]
           /\ Append(s, f) # <<>>
  OBVIOUS

\* A non-empty stack has a top.
LEMMA HasTop ==
    ASSUME NEW s \in Seq(Frames), s # <<>>
    PROVE  Len(s) \in Nat /\ Len(s) >= 1 /\ s[Len(s)] \in Frames
  OBVIOUS

\* What taking off the top does to a stack.
LEMMA PopTop ==
    ASSUME NEW s \in Seq(Frames), s # <<>>
    PROVE  /\ SubSeq(s, 1, Len(s) - 1) \in Seq(Frames)
           /\ Len(SubSeq(s, 1, Len(s) - 1)) = Len(s) - 1
           /\ \A i \in 1..Len(s) - 1 : SubSeq(s, 1, Len(s) - 1)[i] = s[i]
           /\ Len(s) = 1 <=> SubSeq(s, 1, Len(s) - 1) = <<>>
  <1>1. Len(s) \in Nat /\ Len(s) >= 1 /\ \A i \in 1..Len(s) - 1 : s[i] \in Frames
    OBVIOUS
  <1> DEFINE n == Len(s) - 1
             t == SubSeq(s, 1, n)
  <1>2. n \in Int /\ n \in Nat
    BY <1>1
  <1> HIDE DEF n
  <1>3. \A i \in 1..n : s[i] \in Frames
    BY <1>1 DEF n
  <1>4. /\ t \in Seq(Frames)
        /\ Len(t) = IF 1 <= n THEN n - 1 + 1 ELSE 0
        /\ \A i \in 1..n - 1 + 1 : t[i] = s[1 + i - 1]
    BY <1>2, <1>3, SubSeqProperties
  <1> HIDE DEF t
  <1>5. t \in Seq(Frames) /\ Len(t) = n /\ \A i \in 1..n : t[i] = s[i]
    BY <1>2, <1>4
  <1>6. n = 0 <=> t = <<>>
    BY <1>2, <1>5
  <1> QED
    BY <1>1, <1>5, <1>6 DEF n, t

\* What counting an element of the container on top does to a stack.
LEMMA CountTop ==
    ASSUME NEW s \in Seq(Frames), s # <<>>, s[Len(s)].remaining # 0,
           NEW t, t = [s EXCEPT ![Len(s)].remaining = @ - 1]
    PROVE  /\ t \in Seq(Frames) /\ Len(t) = Len(s) /\ t # <<>>
           /\ \A i \in 1..Len(s) - 1 : t[i] = s[i]
           /\ t[Len(s)].return_state = s[Len(s)].return_state
           /\ t[Len(s)].elem_type = s[Len(s)].elem_type
           /\ t[Len(s)].value_type = s[Len(s)].value_type
           /\ t[Len(s)].remaining = s[Len(s)].remaining - 1
  <1> DEFINE f == [s[Len(s)] EXCEPT !.remaining = @ - 1]
  <1>1. Len(s) \in 1..Len(s) /\ Len(s) \in Nat /\ s[Len(s)] \in Frames
    BY HasTop
  <1>2. /\ f \in Frames
        /\ f.return_state = s[Len(s)].return_state
        /\ f.elem_type = s[Len(s)].elem_type
        /\ f.value_type = s[Len(s)].value_type
        /\ f.remaining = s[Len(s)].remaining - 1
    BY <1>1 DEF Frames
  <1>3. t = [s EXCEPT ![Len(s)] = f]
    OBVIOUS
  <1> HIDE DEF f
  <1>4. /\ t \in Seq(Frames) /\ Len(t) = Len(s)
        /\ \A j \in 1..Len(s) : t[j] = IF j = Len(s) THEN f ELSE s[j]
    BY <1>1, <1>2, <1>3, ExceptSeq
  <1> QED
    BY <1>1, <1>2, <1>4

\* A frame may be pushed on the frame that its kind requires.
LEMMA PushNested ==
    ASSUME NEW s \in Seq(Frames), Nested(s), s # <<>>, NEW f \in Frames,
           IF IsReturnFrame(f)
           THEN f.return_state \in ValueReturns /\ ReturnsOnto(s[Len(s)], f.return_state)
           ELSE IsReturnFrame(s[Len(s)])
    PROVE  Nested(Append(s, f))
  <1> DEFINE t == Append(s, f)
  <1>1. /\ Len(t) = Len(s) + 1 /\ Len(s) \in Nat /\ Len(s) >= 1 /\ t # <<>>
        /\ t[Len(s) + 1] = f /\ \A i \in 1..Len(s) : t[i] = s[i]
    BY Push, HasTop
  <1> HIDE DEF t
  <1>2. IsReturnFrame(t[1]) /\ t[1].return_state = "MessageEnd"
    BY <1>1 DEF Nested
  <1>3. ASSUME NEW i \in 2..Len(t)
        PROVE  IF IsReturnFrame(t[i])
               THEN t[i].return_state \in ValueReturns /\ ReturnsOnto(t[i-1], t[i].return_state)
               ELSE IsReturnFrame(t[i-1])
    <2>1. CASE i = Len(s) + 1
      BY <1>1, <2>1
    <2>2. CASE i # Len(s) + 1
      <3>1. i \in 2..Len(s) /\ i \in 1..Len(s) /\ i - 1 \in 1..Len(s)
        BY <1>1, <2>2
      <3> QED
        BY <1>1, <3>1 DEF Nested
    <2> QED
      BY <2>1, <2>2
  <1>4. Nested(t)
    BY <1>2, <1>3 DEF Nested
  <1> QED
    BY <1>4 DEF t

\* A stack without its top is nested.
LEMMA PopNested ==
    ASSUME NEW s \in Seq(Frames), Nested(s), s # <<>>
    PROVE  Nested(SubSeq(s, 1, Len(s) - 1))
  <1> DEFINE t == SubSeq(s, 1, Len(s) - 1)
  <1>1. /\ Len(t) = Len(s) - 1 /\ Len(s) \in Nat /\ Len(s) >= 1
        /\ \A i \in 1..Len(s) - 1 : t[i] = s[i]
        /\ t # <<>> => Len(s) > 1
    BY PopTop, HasTop
  <1> HIDE DEF t
  <1>2. t # <<>> => IsReturnFrame(t[1]) /\ t[1].return_state = "MessageEnd"
    BY <1>1 DEF Nested
  <1>3. ASSUME NEW i \in 2..Len(t)
        PROVE  IF IsReturnFrame(t[i])
               THEN t[i].return_state \in ValueReturns /\ ReturnsOnto(t[i-1], t[i].return_state)
               ELSE IsReturnFrame(t[i-1])
    <2>1. i \in 2..Len(s) /\ i \in 1..Len(s) - 1 /\ i - 1 \in 1..Len(s) - 1
      BY <1>1
    <2> QED
      BY <1>1, <2>1 DEF Nested
  <1>4. Nested(t)
    BY <1>2, <1>3 DEF Nested
  <1> QED
    BY <1>4 DEF t

\* Counting an element leaves a stack nested.
LEMMA CountNested ==
    ASSUME NEW s \in Seq(Frames), Nested(s), s # <<>>, s[Len(s)].remaining # 0,
           ~IsReturnFrame(s[Len(s)]),
           NEW t, t = [s EXCEPT ![Len(s)].remaining = @ - 1]
    PROVE  Nested(t)
  <1>1. /\ t \in Seq(Frames) /\ Len(t) = Len(s) /\ t # <<>>
        /\ \A i \in 1..Len(s) - 1 : t[i] = s[i]
        /\ t[Len(s)].elem_type = s[Len(s)].elem_type
    BY CountTop
  <1>2. Len(s) \in Nat /\ Len(s) >= 1 /\ Len(s) # 1
    BY HasTop DEF Nested
  <1>3. IsReturnFrame(t[1]) /\ t[1].return_state = "MessageEnd"
    BY <1>1, <1>2 DEF Nested
  <1>4. ASSUME NEW i \in 2..Len(t)
        PROVE  IF IsReturnFrame(t[i])
               THEN t[i].return_state \in ValueReturns /\ ReturnsOnto(t[i-1], t[i].return_state)
               ELSE IsReturnFrame(t[i-1])
    <2>1. i \in 2..Len(s) /\ i - 1 \in 1..Len(s) - 1 /\ t[i-1] = s[i-1]
      BY <1>1, <1>2
    <2>2. CASE i = Len(s)
      <3>1. ~IsReturnFrame(t[i])
        BY <1>1, <2>2 DEF IsReturnFrame
      <3>2. IsReturnFrame(s[i-1])
        BY <2>1, <2>2 DEF Nested
      <3> QED
        BY <2>1, <3>1, <3>2
    <2>3. CASE i # Len(s)
      <3>1. i \in 1..Len(s) - 1
        BY <2>1, <2>3, <1>2
      <3> QED
        BY <1>1, <2>1, <3>1 DEF Nested
    <2> QED
      BY <2>2, <2>3
  <1> QED
    BY <1>3, <1>4 DEF Nested

\* Without its top, a stack agrees with the state that the top returns to.
LEMMA PopMatches ==
    ASSUME NEW s \in Seq(Frames), Nested(s), s # <<>>
    PROVE  LET t == SubSeq(s, 1, Len(s) - 1)
           IN  /\ IsReturnFrame(s[Len(s)]) => Matches(t, s[Len(s)].return_state)
               /\ ~IsReturnFrame(s[Len(s)]) => t # <<>> /\ IsReturnFrame(t[Len(t)])
  <1> DEFINE t == SubSeq(s, 1, Len(s) - 1)
  <1>1. /\ Len(t) = Len(s) - 1 /\ Len(s) \in Nat /\ Len(s) >= 1
        /\ \A i \in 1..Len(s) - 1 : t[i] = s[i]
        /\ Len(s) = 1 <=> t = <<>>
    BY PopTop, HasTop
  <1> HIDE DEF t
  <1>2. CASE Len(s) = 1
    <2>1. IsReturnFrame(s[Len(s)]) /\ s[Len(s)].return_state = "MessageEnd" /\ t = <<>>
      BY <1>1, <1>2 DEF Nested
    <2>2. Matches(t, "MessageEnd")
      BY <2>1 DEF Matches, RootStates, StructStates
    <2> QED
      BY <2>1, <2>2 DEF t
  <1>3. CASE Len(s) # 1
    <2>1. Len(s) \in 2..Len(s) /\ t # <<>> /\ t[Len(t)] = s[Len(s) - 1]
      BY <1>1, <1>3
    <2>2. IF IsReturnFrame(s[Len(s)])
          THEN /\ s[Len(s)].return_state \in ValueReturns
               /\ ReturnsOnto(t[Len(t)], s[Len(s)].return_state)
          ELSE IsReturnFrame(t[Len(t)])
      BY <2>1 DEF Nested
    <2>3. ASSUME IsReturnFrame(s[Len(s)])
          PROVE  Matches(t, s[Len(s)].return_state)
      <3> DEFINE r == s[Len(s)].return_state
      <3>1. r \in ValueReturns /\ ReturnsOnto(t[Len(t)], r)
        BY <2>2, <2>3
      <3> HIDE DEF r
      <3>2. r \notin RootStates /\ r \notin StructStates \ {"FieldEnd"} /\ r # "FieldValue"
        BY <3>1 DEF ValueReturns, RootStates, StructStates
      <3>3. Matches(t, r)
        BY <2>1, <3>1, <3>2 DEF Matches, StructStates
      <3> QED
        BY <3>3 DEF r
    <2> QED
      BY <2>1, <2>2, <2>3 DEF t
  <1> QED
    BY <1>2, <1>3

----------------------------------------------------------------------------
(* What the handlers do to stack and state.                                *)

\* The stack and the state after a handler, the header and the forwarded tokens.
StepOK ==
    /\ stack' \in Seq(Frames) /\ Nested(stack') /\ Matches(stack', state')
    /\ state' \in States \ {"null", "MessageBegin"}
    /\ OriginIsRead'
    /\ msg_metadata' \in [message_type : MessageTypes, request_id : Nat]

\* The constants are what the assumption says, in the form the proofs use.
LEMMA SentTypesAreTypes ==
    /\ TypesNow \subseteq FieldTypes
    /\ SizesNow \subseteq Nat
  <1>1. TypesNow \subseteq FieldTypes
    BY ThriftAssumption DEF TypesNow
  <1>2. SizesNow \subseteq Nat
    BY ThriftAssumption DEF SizesNow
  <1> QED
    BY <1>1, <1>2

\* handleValue keeps the stack in step when it is entered on the frame that its return
\* state belongs to.
LEMMA HandleValueKeeps ==
    ASSUME NEW type, NEW ret \in ValueReturns, NEW s \in Seq(Frames),
           s # <<>>, Nested(s), ReturnsOnto(s[Len(s)], ret),
           IInv, state \notin {"null", "MessageBegin", "StructEnd"},
           HandleValue(type, ret, s)
    PROVE  StepOK
  <1> USE DEF StepOK
  <1>1. msg_metadata' \in [message_type : MessageTypes, request_id : Nat]
    BY DEF IInv, TypeOK, MachineOK, HandleValue
  <1>2. CASE /\ type = "Scalar" /\ Forward(<<"Value">>) /\ Goto(ret) /\ stack' = s
    <2>1. ret \in States /\ ret \notin {"null", "MessageBegin", "StructEnd", "FieldValue"}
          /\ ret \notin RootStates
      BY DEF ValueReturns, States, RootStates
    <2>2. Matches(s, ret)
      BY <2>1 DEF Matches, ValueReturns, StructStates
    <2>3. OriginIsRead'
      BY <1>2, <2>1 DEF IInv, OriginIsRead, Forward, Read, Write, Goto
    <2> QED
      BY <1>1, <1>2, <2>1, <2>2, <2>3 DEF Goto
  <1>3. CASE /\ type \in ContainerTypes /\ Goto(BeginOf[type])
             /\ stack' = Append(s, ReturnFrame(ret))
             /\ UNCHANGED <<origin_message, consumed>>
    <2> DEFINE f == ReturnFrame(ret)
    <2>1. f \in Frames /\ IsReturnFrame(f) /\ f.return_state = ret
      BY DEF ReturnFrame, Frame, Frames, IsReturnFrame, NoType, ValueReturns, States
    <2> HIDE DEF f
    <2>2. Nested(Append(s, f)) /\ Append(s, f) \in Seq(Frames)
      BY <2>1, PushNested, Push
    <2>3. /\ Append(s, f) # <<>>
          /\ Append(s, f)[Len(Append(s, f))] = f
      BY <2>1, Push
    <2>4. /\ BeginOf[type] \in {"StructBegin", "MapBegin", "ListBegin", "SetBegin"}
      BY <1>3 DEF ContainerTypes, BeginOf
    <2>5. Matches(Append(s, f), BeginOf[type])
      BY <2>1, <2>3, <2>4 DEF Matches, RootStates, StructStates
    <2>6. OriginIsRead'
      BY <1>3, <2>4 DEF IInv, OriginIsRead, Goto
    <2> QED
      BY <1>1, <1>3, <2>2, <2>4, <2>5, <2>6 DEF Goto, States, f
  <1> QED
    BY <1>2, <1>3 DEF HandleValue

\* A frame of a value returns to a state of what holds the value.
LEMMA ReturnStates ==
    ASSUME IInv, stack # <<>>, IsReturnFrame(Top)
    PROVE  Top.return_state \in ValueReturns \cup {"MessageEnd"}
  <1>1. Nested(stack)
    BY DEF IInv, StackDiscipline
  <1>4. Len(stack) \in Nat /\ Len(stack) >= 1
    BY HasTop DEF IInv, TypeOK
  <1>2. CASE Len(stack) = 1
    BY <1>1, <1>2 DEF Top, Nested
  <1>3. CASE Len(stack) # 1
    <2>1. Len(stack) \in 2..Len(stack)
      BY <1>4, <1>3
    <2>2. IsReturnFrame(stack[Len(stack)])
      BY DEF Top
    <2>3. stack[Len(stack)].return_state \in ValueReturns
      BY <1>1, <2>1, <2>2 DEF Nested
    <2> QED
      BY <2>3 DEF Top
  <1> QED
    BY <1>2, <1>3

\* A handler that takes the top off and goes to the state it returns to.
LEMMA ReturnKeeps ==
    ASSUME IInv, stack # <<>>, stack' = Pop, state' = Top.return_state,
           IsReturnFrame(Top), state \notin {"null", "MessageBegin"},
           OriginIsRead', msg_metadata' = msg_metadata
    PROVE  StepOK
  <1>1. stack \in Seq(Frames) /\ Nested(stack) /\ Len(stack) \in Nat /\ Len(stack) >= 1
    BY HasTop DEF IInv, TypeOK, StackDiscipline
  <1>2. stack' \in Seq(Frames) /\ Nested(stack') /\ Matches(stack', state')
    BY <1>1, PopTop, PopNested, PopMatches DEF Pop, Top
  <1>3. state' \in ValueReturns \cup {"MessageEnd"}
    BY ReturnStates
  <1>4. state' \in States \ {"null", "MessageBegin"}
    BY <1>3 DEF ValueReturns, States
  <1>5. msg_metadata' \in [message_type : MessageTypes, request_id : Nat]
    BY DEF IInv, TypeOK, MachineOK
  <1> QED
    BY <1>2, <1>4, <1>5 DEF StepOK

\* A handler that takes off the frame of a field or a container, and goes to a state
\* of the frame below.
LEMMA LeaveKeeps ==
    ASSUME IInv, stack # <<>>, stack' = Pop, ~IsReturnFrame(Top),
           state' \in {"FieldBegin", "ListEnd", "SetEnd", "MapEnd"},
           state \notin {"null", "MessageBegin"},
           OriginIsRead', msg_metadata' = msg_metadata
    PROVE  StepOK
  <1>1. stack \in Seq(Frames) /\ Nested(stack)
    BY DEF IInv, TypeOK, StackDiscipline
  <1>2. /\ stack' \in Seq(Frames) /\ Nested(stack')
        /\ stack' # <<>> /\ IsReturnFrame(stack'[Len(stack')])
    BY <1>1, PopTop, PopNested, PopMatches DEF Pop, Top
  <1>3. Matches(stack', state')
    BY <1>2 DEF Matches, RootStates, StructStates
  <1>4. msg_metadata' \in [message_type : MessageTypes, request_id : Nat]
    BY DEF IInv, TypeOK, MachineOK
  <1> QED
    BY <1>2, <1>3, <1>4 DEF StepOK, States

\* A handler that pushes the frame of a field or a container.
LEMMA EnterKeeps ==
    ASSUME IInv, stack # <<>>, IsReturnFrame(Top), NEW f \in Frames, ~IsReturnFrame(f),
           stack' = Append(stack, f),
           \/ state' = "FieldValue" /\ IsFieldFrame(f)
           \/ state' \in {"ListValue", "SetValue", "MapKey"} /\ ReturnsOnto(f, state'),
           state \notin {"null", "MessageBegin"},
           OriginIsRead', msg_metadata' = msg_metadata
    PROVE  StepOK
  <1>1. stack \in Seq(Frames) /\ Nested(stack)
    BY DEF IInv, TypeOK, StackDiscipline
  <1>2. /\ stack' \in Seq(Frames) /\ Nested(stack')
        /\ stack' # <<>> /\ stack'[Len(stack')] = f
    BY <1>1, Push, PushNested DEF Top
  <1>3. Matches(stack', state')
    BY <1>2 DEF Matches, RootStates, StructStates
  <1>4. msg_metadata' \in [message_type : MessageTypes, request_id : Nat]
    BY DEF IInv, TypeOK, MachineOK
  <1> QED
    BY <1>2, <1>3, <1>4 DEF StepOK, States

\* What is on top of the stack in the states between the frames of a value.
LEMMA TopOfStructStates ==
    ASSUME IInv, state \in StructStates
    PROVE  stack # <<>> /\ IsReturnFrame(Top)
  BY DEF IInv, StackDiscipline, Matches, RootStates, StructStates, Top

\* What is on top of the stack in the states of a value.
LEMMA TopOfValueStates ==
    ASSUME IInv, state \in ValueReturns
    PROVE  stack # <<>> /\ ReturnsOnto(Top, state) /\ ~IsReturnFrame(Top)
  <1>1. stack # <<>> /\ ReturnsOnto(Top, state)
    BY DEF IInv, StackDiscipline, Matches, RootStates, StructStates, Top, ValueReturns
  <1>2. ~IsReturnFrame(Top)
    BY <1>1 DEF ReturnsOnto, ValueReturns, IsFieldFrame, IsContainerFrame, IsReturnFrame
  <1> QED
    BY <1>1, <1>2

\* Reading and writing the same token keeps what is forwarded equal to what is read.
LEMMA ForwardKeeps ==
    ASSUME NEW token, IInv, state # "StructEnd", state' # "StructEnd", Forward(token)
    PROVE  OriginIsRead'
  BY DEF IInv, OriginIsRead, Forward, Read, Write

----------------------------------------------------------------------------
(* Every handler keeps the invariant.                                      *)

\* The handlers of a message and its structs.
LEMMA MessageAndStructKeep ==
    ASSUME IInv, MessageBegin \/ MessageEnd \/ StructBegin \/ StructEnd
    PROVE  StepOK
  <1>0. msg_metadata \in [message_type : MessageTypes \cup {"none"}, request_id : Nat]
    BY DEF IInv, TypeOK
  <1>1. CASE MessageBegin
    <2> DEFINE f == ReturnFrame("MessageEnd")
    <2>1. f \in Frames /\ IsReturnFrame(f) /\ f.return_state = "MessageEnd"
      BY DEF ReturnFrame, Frame, Frames, IsReturnFrame, NoType, States
    <2> HIDE DEF f
    <2>2. stack' = <<f>> /\ state' = "StructBegin"
      BY <1>1 DEF MessageBegin, Goto, f
    <2>3. stack' \in Seq(Frames) /\ stack' # <<>> /\ Len(stack') = 1 /\ stack'[1] = f
      BY <2>1, <2>2
    <2>4. Nested(stack') /\ Matches(stack', state')
      BY <2>1, <2>2, <2>3 DEF Nested, Matches, RootStates, StructStates
    <2>5. PICK h \in Headers : /\ Forward(<<"MessageBegin", h[1], h[2]>>)
                               /\ msg_metadata' = [message_type |-> h[1], request_id |-> h[2]]
      BY <1>1 DEF MessageBegin
    <2>6. msg_metadata' \in [message_type : MessageTypes, request_id : Nat]
      BY <2>5, ThriftAssumption
    <2>7. OriginIsRead'
      BY <1>1, <2>2, <2>5, ForwardKeeps DEF MessageBegin, In
    <2> QED
      BY <2>2, <2>3, <2>4, <2>6, <2>7 DEF StepOK, States
  <1>2. CASE MessageEnd
    <2>1. stack' = <<>> /\ state' = "Done" /\ state = "MessageEnd" /\ msg_metadata' = msg_metadata
      BY <1>2 DEF MessageEnd, Goto, In, IInv, StackDiscipline, Matches, RootStates, StructStates
    <2>2. OriginIsRead'
      BY <1>2, <2>1, ForwardKeeps DEF MessageEnd
    <2>3. Nested(stack') /\ Matches(stack', state') /\ stack' \in Seq(Frames)
      BY <2>1 DEF Nested, Matches, RootStates, StructStates
    <2>4. msg_metadata' \in [message_type : MessageTypes, request_id : Nat]
      BY <2>1 DEF IInv, TypeOK, MachineOK
    <2> QED
      BY <2>1, <2>2, <2>3, <2>4 DEF StepOK, States
  <1>3. CASE StructBegin
    <2>1. stack' = stack /\ state' = "FieldBegin" /\ state = "StructBegin"
          /\ msg_metadata' = msg_metadata
      BY <1>3 DEF StructBegin, Goto, In
    <2>2. OriginIsRead'
      BY <1>3, <2>1, ForwardKeeps DEF StructBegin
    <2>3. Nested(stack') /\ Matches(stack', state') /\ stack' \in Seq(Frames)
      BY <2>1 DEF IInv, TypeOK, StackDiscipline, Matches, RootStates, StructStates
    <2>4. msg_metadata' \in [message_type : MessageTypes, request_id : Nat]
      BY <2>1 DEF IInv, TypeOK, MachineOK
    <2> QED
      BY <2>1, <2>2, <2>3, <2>4 DEF StepOK, States
  <1>4. CASE StructEnd
    <2>1. /\ state = "StructEnd" /\ stack' = Pop /\ state' = Top.return_state
          /\ msg_metadata' = msg_metadata /\ stack # <<>> /\ IsReturnFrame(Top)
      BY <1>4, TopOfStructStates DEF StructEnd, Goto, In, StructStates
    <2>2. OriginIsRead'
      <3>1. consumed = Append(origin_message, StopField)
        BY <2>1 DEF IInv, OriginIsRead
      <3>2. consumed' = Append(consumed, <<"StructEnd">>)
            /\ origin_message' = Append(Append(origin_message, StopField), <<"StructEnd">>)
        BY <1>4 DEF StructEnd, Read
      <3>3. consumed' = origin_message'
        BY <3>1, <3>2
      <3>4. state' # "StructEnd"
        BY <2>1, ReturnStates DEF ValueReturns
      <3> QED
        BY <3>3, <3>4 DEF OriginIsRead
    <2> QED
      BY <2>1, <2>2, ReturnKeeps
  <1> QED
    BY <1>1, <1>2, <1>3, <1>4

\* The handlers of fields.
LEMMA FieldsKeep ==
    ASSUME IInv, FieldBegin \/ FieldValue \/ FieldEnd
    PROVE  StepOK
  <1>1. CASE FieldBegin
    <2>1. /\ state = "FieldBegin" /\ stack # <<>> /\ IsReturnFrame(Top)
          /\ msg_metadata' = msg_metadata
      BY <1>1, TopOfStructStates DEF FieldBegin, In, StructStates
    <2>2. CASE Read(StopField) /\ Goto("StructEnd") /\ UNCHANGED <<stack, origin_message>>
      <3>1. stack' = stack /\ state' = "StructEnd"
        BY <2>2 DEF Goto
      <3>2. Nested(stack') /\ Matches(stack', state') /\ stack' \in Seq(Frames)
        BY <2>1, <3>1 DEF IInv, TypeOK, StackDiscipline, Matches, RootStates, StructStates
      <3>3. OriginIsRead'
        BY <2>1, <2>2, <3>1 DEF IInv, OriginIsRead, Read
      <3>4. msg_metadata' \in [message_type : MessageTypes, request_id : Nat]
        BY <2>1 DEF IInv, TypeOK, MachineOK
      <3> QED
        BY <3>1, <3>2, <3>3, <3>4 DEF StepOK, States
    <2>3. ASSUME NEW type \in TypesNow, Forward(<<"FieldBegin", type>>),
                 stack' = Append(stack, Frame("FieldEnd", type, NoType, 0)),
                 Goto("FieldValue")
          PROVE  StepOK
      <3> DEFINE f == Frame("FieldEnd", type, NoType, 0)
      <3>1. type \in FieldTypes
        BY SentTypesAreTypes
      <3>2. f \in Frames /\ IsFieldFrame(f) /\ ~IsReturnFrame(f)
        BY <3>1 DEF Frame, Frames, States, IsFieldFrame, IsReturnFrame, NoType,
                    FieldTypes, ContainerTypes
      <3>3. stack' = Append(stack, f) /\ state' = "FieldValue"
        BY <2>3 DEF Goto
      <3> HIDE DEF f
      <3>4. OriginIsRead'
        BY <2>1, <2>3, <3>3, ForwardKeeps
      <3> QED
        BY <2>1, <3>2, <3>3, <3>4, EnterKeeps
    <2> QED
      BY <1>1, <2>2, <2>3 DEF FieldBegin
  <1>2. CASE FieldValue
    <2>1. state = "FieldValue" /\ HandleValue(Top.elem_type, Top.return_state, stack)
      BY <1>2 DEF FieldValue, In
    <2>2. stack # <<>> /\ IsFieldFrame(Top)
      BY <2>1 DEF IInv, StackDiscipline, Matches, RootStates, StructStates, Top
    <2>3. Top.return_state \in ValueReturns /\ ReturnsOnto(Top, Top.return_state)
      BY <2>2 DEF IsFieldFrame, ReturnsOnto, ValueReturns
    <2>4. stack \in Seq(Frames) /\ Nested(stack)
      BY DEF IInv, TypeOK, StackDiscipline
    <2> QED
      BY <2>1, <2>2, <2>3, <2>4, HandleValueKeeps DEF Top
  <1>3. CASE FieldEnd
    <2>1. /\ state = "FieldEnd" /\ stack' = Pop /\ state' = "FieldBegin"
          /\ msg_metadata' = msg_metadata
      BY <1>3 DEF FieldEnd, Goto, In
    <2>2. stack # <<>> /\ ~IsReturnFrame(Top)
      BY <2>1, TopOfValueStates DEF ValueReturns
    <2>3. OriginIsRead'
      BY <1>3, <2>1, ForwardKeeps DEF FieldEnd
    <2> QED
      BY <2>1, <2>2, <2>3, LeaveKeeps
  <1> QED
    BY <1>1, <1>2, <1>3

\* Counting an element of the container on top keeps the stack nested, and the
\* container's frame on top.
LEMMA OneLessKeeps ==
    ASSUME IInv, stack # <<>>, ~IsReturnFrame(Top), Top.remaining # 0,
           NEW ret \in {"ListValue", "SetValue", "MapKey"}, ReturnsOnto(Top, ret)
    PROVE  /\ OneLess \in Seq(Frames) /\ OneLess # <<>> /\ Nested(OneLess)
           /\ ReturnsOnto(OneLess[Len(OneLess)], ret)
  <1>1. stack \in Seq(Frames) /\ Nested(stack) /\ OneLess = [stack EXCEPT ![Len(stack)].remaining = @ - 1]
    BY DEF IInv, TypeOK, StackDiscipline, OneLess
  <1>2. stack[Len(stack)].remaining # 0 /\ ~IsReturnFrame(stack[Len(stack)])
        /\ ReturnsOnto(stack[Len(stack)], ret)
    BY DEF Top
  <1>3. /\ OneLess \in Seq(Frames) /\ Len(OneLess) = Len(stack) /\ OneLess # <<>>
        /\ OneLess[Len(stack)].return_state = stack[Len(stack)].return_state
        /\ OneLess[Len(stack)].elem_type = stack[Len(stack)].elem_type
        /\ OneLess[Len(stack)].value_type = stack[Len(stack)].value_type
    BY <1>1, <1>2, CountTop
  <1>4. Nested(OneLess)
    BY <1>1, <1>2, CountNested
  <1>5. ReturnsOnto(OneLess[Len(OneLess)], ret)
    BY <1>2, <1>3 DEF ReturnsOnto, IsContainerFrame
  <1> QED
    BY <1>3, <1>4, <1>5

\* Leaving a container whose elements have all been read.
LEMMA LeaveContainerKeeps ==
    ASSUME IInv, state \in {"ListValue", "SetValue", "MapKey"}, LeaveContainer
    PROVE  StepOK
  <1>1. stack # <<>> /\ ReturnsOnto(Top, state) /\ ~IsReturnFrame(Top)
    BY TopOfValueStates DEF ValueReturns
  <1>2. /\ stack' = Pop /\ state' = Top.return_state /\ msg_metadata' = msg_metadata
        /\ UNCHANGED <<origin_message, consumed>>
    BY DEF LeaveContainer, Goto
  <1>3. state' \in {"ListEnd", "SetEnd", "MapEnd"}
    BY <1>1, <1>2 DEF ReturnsOnto, IsContainerFrame, EndOf
  <1>4. OriginIsRead'
    BY <1>2, <1>3 DEF IInv, OriginIsRead
  <1> QED
    BY <1>1, <1>2, <1>3, <1>4, LeaveKeeps

\* The handlers of lists and sets.
LEMMA SequentialsKeep ==
    ASSUME IInv, NEW c \in Sequentials, SequentialBegin(c) \/ SequentialValue(c)
    PROVE  StepOK
  <1>1. CASE SequentialBegin(c)
    <2>1. /\ state \in {"ListBegin", "SetBegin"} /\ state' = ValueOf[c]
          /\ state' \in {"ListValue", "SetValue"} /\ msg_metadata' = msg_metadata
      BY <1>1 DEF SequentialBegin, In, Goto, Sequentials, BeginOf, ValueOf
    <2>2. stack # <<>> /\ IsReturnFrame(Top)
      BY <2>1, TopOfStructStates DEF StructStates
    <2>3. PICK type \in TypesNow, size \in SizesNow :
            /\ Forward(<<BeginOf[c], type, size>>)
            /\ stack' = Append(stack, Frame(EndOf[c], type, NoType, size))
      BY <1>1 DEF SequentialBegin
    <2> DEFINE f == Frame(EndOf[c], type, NoType, size)
    <2>4. type \in FieldTypes /\ size \in Nat
      BY SentTypesAreTypes
    <2>5. EndOf[c] \in States
      BY DEF Sequentials, EndOf, States
    <2>6. f \in Frames /\ ~IsReturnFrame(f)
      BY <2>4, <2>5 DEF Frame, Frames, IsReturnFrame, NoType, FieldTypes, ContainerTypes
    <2>7. ReturnsOnto(f, state')
      BY <2>1, <2>6 DEF Frame, ReturnsOnto, IsContainerFrame, IsReturnFrame, Sequentials,
                        ValueOf, EndOf
    <2>8. stack' = Append(stack, f)
      BY <2>3
    <2> HIDE DEF f
    <2>9. OriginIsRead'
      BY <2>1, <2>3, ForwardKeeps
    <2> QED
      BY <2>1, <2>2, <2>6, <2>7, <2>8, <2>9, EnterKeeps
  <1>2. CASE SequentialValue(c)
    <2>1. state = ValueOf[c] /\ state \in {"ListValue", "SetValue"}
      BY <1>2 DEF SequentialValue, In, Sequentials, ValueOf
    <2>2. stack # <<>> /\ ReturnsOnto(Top, state) /\ ~IsReturnFrame(Top)
      BY <2>1, TopOfValueStates DEF ValueReturns
    <2>3. CASE LeaveContainer
      BY <2>1, <2>3, LeaveContainerKeeps
    <2>4. CASE Top.remaining # 0 /\ HandleValue(Top.elem_type, ValueOf[c], OneLess)
      <3>1. /\ OneLess \in Seq(Frames) /\ OneLess # <<>> /\ Nested(OneLess)
            /\ ReturnsOnto(OneLess[Len(OneLess)], state)
        BY <2>1, <2>2, <2>4, OneLessKeeps
      <3> QED
        BY <2>1, <2>4, <3>1, HandleValueKeeps DEF ValueReturns
    <2> QED
      BY <1>2, <2>3, <2>4 DEF SequentialValue
  <1> QED
    BY <1>1, <1>2

\* The ends of containers.
LEMMA ContainerEndKeeps ==
    ASSUME IInv, NEW c \in Sequentials \cup {"Map"}, ContainerEnd(c)
    PROVE  StepOK
  <1>1. /\ state \in {"ListEnd", "SetEnd", "MapEnd"} /\ stack' = Pop
        /\ state' = Top.return_state /\ msg_metadata' = msg_metadata
    BY DEF ContainerEnd, In, Goto, Sequentials, EndOf
  <1>2. stack # <<>> /\ IsReturnFrame(Top)
    BY <1>1, TopOfStructStates DEF StructStates
  <1>3. OriginIsRead'
    <2>1. state # "StructEnd" /\ state' # "StructEnd"
      BY <1>1, <1>2, ReturnStates DEF ValueReturns
    <2> QED
      BY <2>1, ForwardKeeps DEF ContainerEnd
  <1> QED
    BY <1>1, <1>2, <1>3, ReturnKeeps

\* The handlers of maps.  mapKey leaves its frame as it is and mapValue counts the
\* entry, so a key can return to MapValue and a value to MapKey.
LEMMA MapsKeep ==
    ASSUME IInv, MapBegin \/ MapKey \/ MapValue
    PROVE  StepOK
  <1>0. stack \in Seq(Frames) /\ Nested(stack)
    BY DEF IInv, TypeOK, StackDiscipline
  <1>1. CASE MapBegin
    <2>1. /\ state = "MapBegin" /\ state' = "MapKey" /\ msg_metadata' = msg_metadata
      BY <1>1 DEF MapBegin, In, Goto
    <2>2. stack # <<>> /\ IsReturnFrame(Top)
      BY <2>1, TopOfStructStates DEF StructStates
    <2>3. PICK key \in TypesNow, value \in TypesNow, size \in SizesNow :
            /\ Forward(<<"MapBegin", key, value, size>>)
            /\ stack' = Append(stack, Frame("MapEnd", key, value, size))
      BY <1>1 DEF MapBegin
    <2> DEFINE f == Frame("MapEnd", key, value, size)
    <2>4. key \in FieldTypes /\ value \in FieldTypes /\ size \in Nat
      BY SentTypesAreTypes
    <2>5. f \in Frames /\ ~IsReturnFrame(f) /\ ReturnsOnto(f, "MapKey")
      BY <2>4 DEF Frame, Frames, States, IsReturnFrame, NoType, FieldTypes, ContainerTypes,
                  ReturnsOnto, IsContainerFrame, EndOf
    <2>6. stack' = Append(stack, f)
      BY <2>3
    <2> HIDE DEF f
    <2>7. OriginIsRead'
      BY <2>1, <2>3, ForwardKeeps
    <2> QED
      BY <2>1, <2>2, <2>5, <2>6, <2>7, EnterKeeps
  <1>2. CASE MapKey
    <2>1. state = "MapKey"
      BY <1>2 DEF MapKey, In
    <2>2. stack # <<>> /\ ReturnsOnto(Top, "MapKey")
      BY <2>1, TopOfValueStates DEF ValueReturns
    <2>3. CASE LeaveContainer
      BY <2>1, <2>3, LeaveContainerKeeps
    <2>4. CASE Top.remaining # 0 /\ HandleValue(Top.elem_type, "MapValue", stack)
      <3>1. ReturnsOnto(Top, "MapValue")
        BY <2>2, <2>4 DEF ReturnsOnto
      <3> QED
        BY <1>0, <2>1, <2>2, <2>4, <3>1, HandleValueKeeps DEF ValueReturns, Top
    <2> QED
      BY <1>2, <2>3, <2>4 DEF MapKey
  <1>3. CASE MapValue
    <2>1. state = "MapValue" /\ HandleValue(Top.value_type, "MapKey", OneLess)
      BY <1>3 DEF MapValue, In
    <2>2. stack # <<>> /\ ReturnsOnto(Top, "MapValue") /\ ~IsReturnFrame(Top)
      BY <2>1, TopOfValueStates DEF ValueReturns
    <2>3. Top.remaining # 0 /\ ReturnsOnto(Top, "MapKey")
      BY <2>2 DEF ReturnsOnto
    <2>4. /\ OneLess \in Seq(Frames) /\ OneLess # <<>> /\ Nested(OneLess)
          /\ ReturnsOnto(OneLess[Len(OneLess)], "MapKey")
      BY <2>2, <2>3, OneLessKeeps
    <2> QED
      BY <2>1, <2>4, HandleValueKeeps DEF ValueReturns
  <1> QED
    BY <1>1, <1>2, <1>3

----------------------------------------------------------------------------
(* The theorems.                                                           *)

\* No handler goes on at a value of a type that handleValue does not know.
LEMMA NoHandlerOnUnknownType ==
    ASSUME NextValueType = "Other"
    PROVE  ~Handle
  <1>1. /\ state \in ValueStates
        /\ state = "FieldValue" => Top.elem_type = "Other"
        /\ state \in {"ListValue", "SetValue", "MapKey"} =>
             Top.remaining # 0 /\ Top.elem_type = "Other"
        /\ state = "MapValue" => Top.value_type = "Other"
    BY DEF NextValueType, ValueStates, NoType
  <1>2. ~(MessageBegin \/ MessageEnd \/ StructBegin \/ StructEnd \/ FieldBegin \/ FieldEnd)
    BY <1>1 DEF ValueStates, MessageBegin, MessageEnd, StructBegin, StructEnd, FieldBegin,
                FieldEnd, In
  <1>3. ~(FieldValue \/ MapBegin \/ MapKey \/ MapValue)
    BY <1>1 DEF ValueStates, FieldValue, MapBegin, MapKey, MapValue, HandleValue,
                LeaveContainer, ContainerTypes, In
  <1>4. ASSUME NEW c \in Sequentials
        PROVE  ~(SequentialBegin(c) \/ SequentialValue(c))
    BY <1>1 DEF ValueStates, SequentialBegin, SequentialValue, HandleValue, LeaveContainer,
                ContainerTypes, In, Sequentials, BeginOf, ValueOf
  <1>5. ASSUME NEW c \in Sequentials \cup {"Map"}
        PROVE  ~ContainerEnd(c)
    BY <1>1 DEF ValueStates, ContainerEnd, In, Sequentials, EndOf
  <1> QED
    BY <1>2, <1>3, <1>4, <1>5 DEF Handle

\* A handler leaves pc, result and the codec's own variables alone, and does not end
\* or restart the state machine.
LEMMA HandleKeeps ==
    ASSUME IInv, Handle
    PROVE  IInv'
  <1>1. StepOK
    BY MessageAndStructKeep, FieldsKeep, SequentialsKeep, ContainerEndKeeps, MapsKeep DEF Handle
  <1>2. pc = "run" /\ UNCHANGED <<pc, result, codecVars>>
    BY DEF Handle, MessageBegin, MessageEnd, StructBegin, StructEnd, FieldBegin, FieldValue,
           FieldEnd, SequentialBegin, SequentialValue, ContainerEnd, MapBegin, MapKey,
           MapValue, HandleValue, LeaveContainer, In, Goto
  <1>3. frame_started
    BY <1>2 DEF IInv, MachineOK
  <1>4. result # "BadMessage"
    BY NoHandlerOnUnknownType DEF IInv, MachineOK
  <1>5. TypeOK'
    BY <1>1, <1>2 DEF IInv, TypeOK, StepOK, codecVars
  <1>6. MachineOK'
    BY <1>1, <1>2, <1>3, <1>4 DEF MachineOK, StepOK, codecVars, MessageTypes
  <1> QED
    BY <1>1, <1>5, <1>6 DEF IInv, StackDiscipline, StepOK

\* What a codec without a message has for metadata.
LEMMA NoMetadataTyped ==
    /\ NoMetadata \in [message_type : MessageTypes \cup {"none"}, request_id : Nat]
    /\ NoMetadata \in [message_type : {"none", "Request", "Response", "Oneway", "Error"},
                       request_id : Nat]
    /\ <<>> \in Seq(Frames)
  BY DEF NoMetadata

\* Everything but a handler keeps the invariant.
LEMMA OthersKeep ==
    ASSUME IInv, Next, ~Handle
    PROVE  IInv'
  <1>1. CASE RunOutOfData
    <2>1. result' = "WaitForData" /\ pc' = "idle" /\ UNCHANGED <<codecVars, machineVars>>
      BY <1>1 DEF RunOutOfData, Return
    <2> QED
      BY <2>1 DEF IInv, TypeOK, StackDiscipline, MachineOK, OriginIsRead, codecVars,
                  machineVars, Matches, Nested
  <1>2. CASE ThrowUnknownType
    <2>1. /\ result' = "BadMessage" /\ pc' = "idle" /\ UNCHANGED <<codecVars, machineVars>>
          /\ NextValueType = "Other" /\ frame_started
      BY <1>2 DEF ThrowUnknownType, Return, IInv, MachineOK
    <2>2. NextValueType' = NextValueType
      BY <2>1 DEF NextValueType, Top, machineVars
    <2> QED
      BY <2>1, <2>2 DEF IInv, TypeOK, StackDiscipline, MachineOK, OriginIsRead, codecVars,
                  machineVars, Matches, Nested
  <1>3. CASE DecodeFrameEnd
    <2>1. /\ state' = "null" /\ stack' = <<>> /\ origin_message' = <<>> /\ consumed' = <<>>
          /\ result' = "Done" /\ pc' = "idle" /\ frame_started' = FALSE
          /\ msg_metadata' = NoMetadata /\ decoded' = decoded + 1
          /\ metadata' = [message_type |-> MetaTypeOf[msg_metadata.message_type],
                          request_id |-> msg_metadata.request_id]
          /\ state = "Done"
      BY <1>3 DEF DecodeFrameEnd, Return, In
    <2>2. msg_metadata \in [message_type : MessageTypes, request_id : Nat]
      BY <2>1 DEF IInv, TypeOK, MachineOK
    <2>3. metadata' \in [message_type : {"none", "Request", "Response", "Oneway", "Error"},
                         request_id : Nat]
      BY <2>1, <2>2 DEF MetaTypeOf, MessageTypes
    <2>4. TypeOK'
      <3>1. decoded' \in Nat /\ state' \in States
        BY <2>1 DEF IInv, TypeOK, States
      <3>2. /\ pc' \in {"idle", "run"} /\ frame_started' \in BOOLEAN
            /\ result' \in {"none", "WaitForData", "BadFrame", "BadMessage", "Done"}
        BY <2>1
      <3>3. /\ msg_metadata' \in [message_type : MessageTypes \cup {"none"}, request_id : Nat]
            /\ stack' \in Seq(Frames)
        BY <2>1, NoMetadataTyped
      <3> QED
        BY <2>3, <3>1, <3>2, <3>3 DEF TypeOK
    <2>5. StackDiscipline' /\ OriginIsRead' /\ MachineOK'
      BY <2>1 DEF StackDiscipline, Nested, Matches, RootStates, StructStates, OriginIsRead,
                  MachineOK
    <2> QED
      BY <2>4, <2>5 DEF IInv
  <1>4. CASE DecodeResume
    <2>1. pc' = "run" /\ frame_started /\ UNCHANGED <<result, codecVars, machineVars>>
      BY <1>4 DEF DecodeResume
    <2>2. NextValueType' = NextValueType
      BY <2>1 DEF NextValueType, Top, machineVars
    <2> QED
      BY <2>1, <2>2 DEF IInv, TypeOK, StackDiscipline, MachineOK, OriginIsRead, codecVars,
                  machineVars, Matches, Nested
  <1>5. CASE DecodeFrameStart
    <2>1. /\ pc' = "run" /\ frame_started' = TRUE /\ state' = "MessageBegin" /\ stack' = <<>>
          /\ origin_message' = <<>> /\ ~frame_started
          /\ UNCHANGED <<result, metadata, decoded, error_reply, consumed, msg_metadata>>
      BY <1>5 DEF DecodeFrameStart
    <2>2. state = "null" /\ result # "BadMessage" /\ consumed = <<>>
      BY <2>1 DEF IInv, MachineOK
    <2>3. consumed' = <<>>
      BY <2>1, <2>2
    <2>4. TypeOK'
      BY <2>1 DEF IInv, TypeOK, States
    <2>5. StackDiscipline' /\ OriginIsRead' /\ MachineOK'
      BY <2>1, <2>2, <2>3 DEF StackDiscipline, Nested, Matches, RootStates, StructStates,
                  OriginIsRead, MachineOK
    <2> QED
      BY <2>4, <2>5 DEF IInv
  <1>6. CASE DecodeFrameStartFails
    <2>1. result' \in {"WaitForData", "BadFrame"} /\ UNCHANGED <<pc, codecVars, machineVars>>
      BY <1>6 DEF DecodeFrameStartFails
    <2> QED
      BY <2>1 DEF IInv, TypeOK, StackDiscipline, MachineOK, OriginIsRead, codecVars,
                  machineVars, Matches, Nested
  <1>7. CASE OnError
    <2>1. UNCHANGED <<pc, result, frame_started, metadata, decoded, machineVars>>
      BY <1>7 DEF OnError
    <2>2. NextValueType' = NextValueType
      BY <2>1 DEF NextValueType, Top, machineVars
    <2> QED
      BY <2>1, <2>2 DEF IInv, TypeOK, StackDiscipline, MachineOK, OriginIsRead,
                  machineVars, Matches, Nested
  <1> QED
    BY <1>1, <1>2, <1>3, <1>4, <1>5, <1>6, <1>7 DEF Next, Run

\* The inductive invariant of the decoder: its types, the nesting of its frames and
\* their agreement with the state, and what has been forwarded.
THEOREM ThriftInvariant == Spec => []IInv
  <1>1. Init => IInv
    <2> SUFFICES ASSUME Init PROVE IInv
      OBVIOUS
    <2> USE DEF Init
    <2>1. TypeOK
      BY NoMetadataTyped DEF TypeOK, States
    <2>2. StackDiscipline
      BY DEF StackDiscipline, Nested, Matches, RootStates, StructStates
    <2> QED
      BY <2>1, <2>2 DEF IInv, MachineOK, OriginIsRead
  <1>2. IInv /\ [Next]_vars => IInv'
    <2> SUFFICES ASSUME IInv, [Next]_vars PROVE IInv'
      OBVIOUS
    <2>1. CASE Handle
      BY <2>1, HandleKeeps
    <2>2. CASE Next /\ ~Handle
      BY <2>2, OthersKeep
    <2>3. CASE UNCHANGED vars
      <3>1. UNCHANGED <<pc, result, codecVars, machineVars>>
        BY <2>3 DEF vars
      <3>2. NextValueType' = NextValueType
        BY <3>1 DEF NextValueType, Top, machineVars
      <3> QED
        BY <3>1, <3>2 DEF IInv, TypeOK, StackDiscipline, MachineOK, OriginIsRead, codecVars,
                    machineVars, Matches, Nested
    <2> QED
      BY <2>1, <2>2, <2>3 DEF Next, Run
  <1> QED
    BY <1>1, <1>2, PTL DEF Spec

\* The decoder's variables keep their types: no count of remaining elements falls below
\* zero.
THEOREM ThriftTypeCorrect == Spec => []TypeOK
  BY ThriftInvariant, PTL DEF IInv

\* Stack and state stay in step for every nesting: the ASSERTs of thrift_codec.cc hold.
THEOREM StackDisciplineCorrect == Spec => []StackDiscipline
  BY ThriftInvariant, PTL DEF IInv

\* What the decoder forwards is what it has read, token by token.
THEOREM OriginIsReadCorrect == Spec => []OriginIsRead
  BY ThriftInvariant, PTL DEF IInv

\* After every call of decode(), stack and buffer are those of the bytes that were read.
THEOREM PlaceIsKeptCorrect == Spec => []PlaceIsKept
  BY StackDisciplineCorrect, OriginIsReadCorrect, PTL DEF PlaceIsKept

\* Once decode() has thrown inside a message it never returns anything else.
THEOREM ErrorSticksCorrect == Spec => ErrorSticks
  <1>1. IInv /\ [Next]_vars => [result = "BadMessage" => result' = "BadMessage"]_vars
    <2> SUFFICES ASSUME IInv, Next, result = "BadMessage"
                 PROVE  result' = "BadMessage"
      OBVIOUS
    <2>1. frame_started /\ NextValueType = "Other" /\ state # "null"
      BY DEF IInv, MachineOK
    <2>2. ~Handle
      BY <2>1, NoHandlerOnUnknownType
    <2>3. ~RunOutOfData /\ ~DecodeFrameEnd
      <3>1. state \in ValueStates
        BY <2>1 DEF NextValueType, ValueStates, NoType
      <3>2. ~ReadsNext
        BY <2>1, <3>1 DEF ReadsNext
      <3> QED
        BY <3>1, <3>2 DEF RunOutOfData, DecodeFrameEnd, In, ValueStates
    <2>4. ~DecodeFrameStart /\ ~DecodeFrameStartFails
      BY <2>1 DEF DecodeFrameStart, DecodeFrameStartFails
    <2> QED
      BY <2>2, <2>3, <2>4 DEF Next, Run, ThrowUnknownType, Return, DecodeResume, OnError
  <1> QED
    BY <1>1, ThriftInvariant, PTL DEF Spec, ErrorSticks
=============================================================================
