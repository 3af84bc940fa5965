------------------------ MODULE ThriftGrammar_proofs ------------------------
(***************************************************************************)
(* thrift_codec.cc decodes the grammar of Thrift messages: for every depth *)
(* of nesting, every size of containers, and however the bytes are cut.    *)
(*                                                                         *)
(* Every frame of the stack stands for a phrase that has been begun.  The  *)
(* invariant says, for every set of phrases closed under the productions,  *)
(* which phrases of it end where the machine is: each handler applies one  *)
(* production.                                                             *)
(***************************************************************************)
EXTENDS ThriftGrammar, ThriftCodec_proofs

----------------------------------------------------------------------------
(* The invariant.                                                          *)

\* The place of the next token.
Here(s) == Len(s) + 1

\* The list or set that is decoded in a value state.
SequentialOf == [ListValue |-> "List", SetValue |-> "Set"]

\* The first token of a list or set, or a map, with the types of frame f.
BeginsSequential(s, begin, c, f) ==
    /\ begin \in DOMAIN s /\ s[begin][1] = BeginOf[c]
    /\ s[begin][2] = f.elem_type /\ s[begin][3] \in Nat

BeginsMap(s, begin, f) ==
    /\ begin \in DOMAIN s /\ s[begin][1] = "MapBegin"
    /\ s[begin][2] = f.elem_type /\ s[begin][3] = f.value_type /\ s[begin][4] \in Nat

BeginsField(s, begin, f) == Is(s, begin, <<"FieldBegin", f.elem_type>>)

\* Of the list or set, or map, that begins at `begin`, n elements remain to be read
\* at the place `at`.
ElementsRemain(s, g, f, begin, n, at) ==
    Elements(f.elem_type, s[begin][3] - n, begin + 1, at) \in g.elements

EntriesRemain(s, g, f, begin, n, at) ==
    Entries(f.elem_type, f.value_type, s[begin][4] - n, begin + 1, at) \in g.entries

\* For a frame f that is no value's, and the place `begin` of its first token: what has
\* been found up to the place `at`, where the machine is in state st.
Ready(s, g, f, begin, st, at) ==
    CASE st = "FieldValue" -> BeginsField(s, begin, f) /\ at = begin + 1
      [] st = "FieldEnd" ->
           BeginsField(s, begin, f) /\ Value(f.elem_type, begin + 1, at) \in g.values
      [] st \in {"ListValue", "SetValue"} ->
           /\ BeginsSequential(s, begin, SequentialOf[st], f)
           /\ ElementsRemain(s, g, f, begin, f.remaining, at)
      [] st = "MapKey" ->
           BeginsMap(s, begin, f) /\ EntriesRemain(s, g, f, begin, f.remaining, at)
      [] st = "MapValue" ->
           /\ BeginsMap(s, begin, f)
           /\ \E middle \in Places(s) :
                /\ EntriesRemain(s, g, f, begin, f.remaining, middle)
                /\ Value(f.elem_type, middle, at) \in g.values
      [] OTHER -> FALSE

\* Once there is a value of the type from `at` on, the frame is ready for state st.
Awaits(s, g, f, begin, st, type, at) ==
    CASE st = "FieldEnd" ->
           BeginsField(s, begin, f) /\ type = f.elem_type /\ at = begin + 1
      [] st \in {"ListValue", "SetValue"} ->
           /\ BeginsSequential(s, begin, SequentialOf[st], f) /\ type = f.elem_type
           /\ ElementsRemain(s, g, f, begin, f.remaining + 1, at)
      [] st = "MapValue" ->
           /\ BeginsMap(s, begin, f) /\ type = f.elem_type
           /\ EntriesRemain(s, g, f, begin, f.remaining, at)
      [] st = "MapKey" ->
           /\ BeginsMap(s, begin, f) /\ type = f.value_type
           /\ \E middle \in Places(s) :
                /\ EntriesRemain(s, g, f, begin, f.remaining + 1, middle)
                /\ Value(f.elem_type, middle, at) \in g.values
      [] OTHER -> FALSE

\* The phrase that a frame stands for: where it begins, and the type of its value.
Phrases(s) == [begin : Places(s), type : FieldTypes]

\* What is known of a frame f with phrase p because the frame `above`, with phrase q,
\* lies on it.
Link(s, g, f, p, above, q) ==
    IF IsReturnFrame(above)
    THEN Awaits(s, g, f, p.begin, above.return_state, q.type, q.begin)
    ELSE IF IsFieldFrame(above)
    THEN /\ p.type = "Struct" /\ Is(s, p.begin, <<"StructBegin">>)
         /\ Fields(p.begin + 1, q.begin) \in g.fields
    ELSE /\ p.type \in {"List", "Set", "Map"} /\ above.return_state = EndOf[p.type]
         /\ q.begin = p.begin

\* What is known of the frame on top, in a state st that works on it.
OnTop(s, g, st, f, p) ==
    CASE st \in {"StructBegin", "ListBegin", "SetBegin", "MapBegin"} ->
           p.type \in ContainerTypes /\ st = BeginOf[p.type] /\ p.begin = Here(s)
      [] st = "FieldBegin" ->
           /\ p.type = "Struct" /\ Is(s, p.begin, <<"StructBegin">>)
           /\ Fields(p.begin + 1, Here(s)) \in g.fields
      [] st = "StructEnd" ->
           /\ p.type = "Struct" /\ Is(s, p.begin, <<"StructBegin">>)
           /\ Is(s, Len(s), StopField) /\ Fields(p.begin + 1, Len(s)) \in g.fields
      [] st \in {"ListEnd", "SetEnd"} ->
           /\ p.type \in Sequentials /\ st = EndOf[p.type]
           /\ p.begin \in DOMAIN s /\ s[p.begin][1] = BeginOf[p.type]
           /\ Elements(s[p.begin][2], s[p.begin][3], p.begin + 1, Here(s)) \in g.elements
      [] st = "MapEnd" ->
           /\ p.type = "Map" /\ p.begin \in DOMAIN s /\ s[p.begin][1] = "MapBegin"
           /\ Entries(s[p.begin][2], s[p.begin][3], s[p.begin][4], p.begin + 1, Here(s))
                \in g.entries
      [] OTHER -> Ready(s, g, f, p.begin, st, Here(s))

\* The phrases of a stack fit together; the lowest is the struct behind the header.
Chain(s, g, frames, phrases) ==
    /\ phrases[1].begin = 2 /\ phrases[1].type = "Struct"
    /\ \A i \in 2..Len(frames) :
         Link(s, g, frames[i - 1], phrases[i - 1], frames[i], phrases[i])

\* The struct of the message has been read as far as it goes.
Parsed(s, g, st, frames) ==
    CASE st \in {"null", "MessageBegin"} -> TRUE
      [] st = "MessageEnd" -> Value("Struct", 2, Here(s)) \in g.values
      [] st = "Done" -> Value("Struct", 2, Len(s)) \in g.values
      [] OTHER ->
           \E phrases \in [1..Len(frames) -> Phrases(s)] :
              /\ Chain(s, g, frames, phrases)
              /\ OnTop(s, g, st, frames[Len(frames)], phrases[Len(frames)])

\* The first token is the header that the codec remembers.
HeaderIsRead ==
    IF state \in {"null", "MessageBegin"} THEN consumed = <<>>
    ELSE Is(consumed, 1,
            <<"MessageBegin", msg_metadata.message_type, msg_metadata.request_id>>)

\* The last token is the message's end.
EndIsRead == state = "Done" => Is(consumed, Len(consumed), <<"MessageEnd">>)

\* The inductive invariant, beside that of ThriftCodec.
GrammarInv ==
    /\ consumed \in Seq(Tokens)
    /\ HeaderIsRead
    /\ EndIsRead
    /\ \A g : Closed(consumed, g) => Parsed(consumed, g, state, stack)

----------------------------------------------------------------------------
(* Tokens that are read extend what is known of the tokens before them.    *)

\* s2 begins with s.
Grows(s, s2) ==
    /\ s \in Seq(Tokens) /\ s2 \in Seq(Tokens)
    /\ Len(s) <= Len(s2) /\ \A i \in 1..Len(s) : s2[i] = s[i]

\* Reading a token extends what has been read.
LEMMA ReadGrows ==
    ASSUME NEW s \in Seq(Tokens), NEW t \in Tokens
    PROVE  /\ Grows(s, Append(s, t))
           /\ Len(Append(s, t)) = Len(s) + 1
           /\ Append(s, t)[Len(s) + 1] = t
  BY DEF Grows

\* The places of a sequence are places of a longer one.
LEMMA PlacesGrow ==
    ASSUME NEW s, NEW s2, Grows(s, s2)
    PROVE  /\ DOMAIN s \subseteq DOMAIN s2 /\ Places(s) \subseteq Places(s2)
           /\ DOMAIN s = 1..Len(s) /\ DOMAIN s2 = 1..Len(s2)
           /\ Len(s) \in Nat /\ Len(s2) \in Nat
           /\ \A i \in DOMAIN s : s2[i] = s[i]
           /\ \A i, t : Is(s, i, t) => Is(s2, i, t)
  BY DEF Grows, Places, Is

\* A set of phrases closed for a sequence is closed for what it begins with.
LEMMA ClosedForPrefix ==
    ASSUME NEW s, NEW s2, Grows(s, s2), NEW g, Closed(s2, g)
    PROVE  Closed(s, g)
  <1>1. /\ DOMAIN s \subseteq DOMAIN s2 /\ Places(s) \subseteq Places(s2)
        /\ \A i \in DOMAIN s : s2[i] = s[i]
        /\ \A i, t : Is(s, i, t) => Is(s2, i, t)
    BY PlacesGrow
  <1>2. Scalars(s, g)
    BY <1>1 DEF Closed, Scalars
  <1>3. Structs(s, g)
    BY <1>1 DEF Closed, Structs
  <1>4. FieldLists(s, g)
    BY <1>1 DEF Closed, FieldLists
  <1>5. ListsAndSets(s, g)
    BY <1>1 DEF Closed, ListsAndSets
  <1>6. ElementLists(s, g)
    BY <1>1 DEF Closed, ElementLists
  <1>7. Maps(s, g)
    BY <1>1 DEF Closed, Maps
  <1>8. EntryLists(s, g)
    BY <1>1 DEF Closed, EntryLists
  <1> QED
    BY <1>2, <1>3, <1>4, <1>5, <1>6, <1>7, <1>8 DEF Closed

\* The first token of a frame stays where it is.
LEMMA BeginsGrow ==
    ASSUME NEW s, NEW s2, Grows(s, s2), NEW g, NEW f, NEW begin
    PROVE  /\ BeginsField(s, begin, f) => BeginsField(s2, begin, f)
           /\ \A c : BeginsSequential(s, begin, c, f) =>
                /\ BeginsSequential(s2, begin, c, f)
                /\ \A n, at : ElementsRemain(s, g, f, begin, n, at) =>
                                ElementsRemain(s2, g, f, begin, n, at)
           /\ BeginsMap(s, begin, f) =>
                /\ BeginsMap(s2, begin, f)
                /\ \A n, at : EntriesRemain(s, g, f, begin, n, at) =>
                                EntriesRemain(s2, g, f, begin, n, at)
  <1>1. /\ DOMAIN s \subseteq DOMAIN s2
        /\ \A i \in DOMAIN s : s2[i] = s[i]
        /\ \A i, t : Is(s, i, t) => Is(s2, i, t)
    BY PlacesGrow
  <1> QED
    BY <1>1 DEF BeginsField, BeginsSequential, BeginsMap, ElementsRemain, EntriesRemain

\* What a frame awaits, it still awaits when more has been read.
LEMMA AwaitsGrows ==
    ASSUME NEW s, NEW s2, Grows(s, s2), NEW g, NEW f, NEW begin, NEW st, NEW type, NEW at,
           Awaits(s, g, f, begin, st, type, at)
    PROVE  Awaits(s2, g, f, begin, st, type, at)
  <1>1. Places(s) \subseteq Places(s2)
    BY PlacesGrow
  <1> QED
    BY <1>1, BeginsGrow DEF Awaits

\* So the frames of a stack still fit together.
LEMMA LinkGrows ==
    ASSUME NEW s, NEW s2, Grows(s, s2), NEW g, NEW f, NEW p, NEW above, NEW q,
           Link(s, g, f, p, above, q)
    PROVE  Link(s2, g, f, p, above, q)
  <1>1. \A i, t : Is(s, i, t) => Is(s2, i, t)
    BY PlacesGrow
  <1> QED
    BY <1>1, AwaitsGrows DEF Link

----------------------------------------------------------------------------
(* The phrases of a stack whose frames change.                             *)

\* Reading leaves the phrases of the stack as they are.
LEMMA ChainGrows ==
    ASSUME NEW s, NEW s2, Grows(s, s2), NEW g, NEW frames,
           NEW phrases \in [1..Len(frames) -> Phrases(s)], Chain(s, g, frames, phrases)
    PROVE  /\ phrases \in [1..Len(frames) -> Phrases(s2)]
           /\ Chain(s2, g, frames, phrases)
  <1>1. Phrases(s) \subseteq Phrases(s2)
    BY PlacesGrow DEF Phrases
  <1> QED
    BY <1>1, LinkGrows DEF Chain

\* A frame that is pushed has its phrase on top.
LEMMA ChainPush ==
    ASSUME NEW s, NEW g, NEW frames \in Seq(Frames), frames # <<>>, NEW f \in Frames,
           NEW phrases \in [1..Len(frames) -> Phrases(s)], Chain(s, g, frames, phrases),
           NEW q \in Phrases(s),
           Link(s, g, frames[Len(frames)], phrases[Len(frames)], f, q)
    PROVE  \E longer \in [1..Len(frames) + 1 -> Phrases(s)] :
             longer[Len(frames) + 1] = q /\ Chain(s, g, Append(frames, f), longer)
  <1> DEFINE n == Len(frames)
             more == Append(frames, f)
             longer == [i \in 1..n + 1 |-> IF i = n + 1 THEN q ELSE phrases[i]]
  <1>1. /\ n \in Nat /\ n >= 1 /\ Len(more) = n + 1 /\ more[n + 1] = f
        /\ \A i \in 1..n : more[i] = frames[i]
    BY Push, HasTop
  <1> HIDE DEF n, more
  <1>2. longer \in [1..n + 1 -> Phrases(s)]
    BY <1>1 DEF n
  <1>3. longer[n + 1] = q /\ \A i \in 1..n : longer[i] = phrases[i]
    BY <1>1
  <1> HIDE DEF longer
  <1>4. longer[1].begin = 2 /\ longer[1].type = "Struct"
    BY <1>1, <1>3 DEF Chain
  <1>5. ASSUME NEW i \in 2..n + 1
        PROVE  Link(s, g, more[i - 1], longer[i - 1], more[i], longer[i])
    <2>1. CASE i = n + 1
      <3>1. i - 1 = n /\ n \in 1..n
        BY <1>1, <2>1
      <3> QED
        BY <1>1, <1>3, <2>1, <3>1 DEF n
    <2>2. CASE i # n + 1
      <3>1. i \in 2..n /\ i \in 1..n /\ i - 1 \in 1..n
        BY <1>1, <2>2
      <3> QED
        BY <1>1, <1>3, <3>1 DEF Chain, n
    <2> QED
      BY <2>1, <2>2
  <1>6. Chain(s, g, more, longer)
    BY <1>1, <1>4, <1>5 DEF Chain
  <1> QED
    BY <1>2, <1>3, <1>6 DEF n, more

\* A frame that is taken off takes its phrase with it.
LEMMA ChainPop ==
    ASSUME NEW s, NEW g, NEW frames \in Seq(Frames), Len(frames) > 1,
           NEW phrases \in [1..Len(frames) -> Phrases(s)], Chain(s, g, frames, phrases)
    PROVE  \E fewer \in [1..Len(frames) - 1 -> Phrases(s)] :
             /\ fewer[Len(frames) - 1] = phrases[Len(frames) - 1]
             /\ Chain(s, g, SubSeq(frames, 1, Len(frames) - 1), fewer)
  <1> DEFINE n == Len(frames)
             rest == SubSeq(frames, 1, n - 1)
             fewer == [i \in 1..n - 1 |-> phrases[i]]
  <1>1. /\ n \in Nat /\ n > 1 /\ Len(rest) = n - 1
        /\ \A i \in 1..n - 1 : rest[i] = frames[i]
    BY PopTop, HasTop
  <1> HIDE DEF n, rest
  <1>2. fewer \in [1..n - 1 -> Phrases(s)]
    BY <1>1 DEF n
  <1>3. \A i \in 1..n - 1 : fewer[i] = phrases[i]
    BY <1>1
  <1> HIDE DEF fewer
  <1>4. fewer[1].begin = 2 /\ fewer[1].type = "Struct"
    BY <1>1, <1>3 DEF Chain
  <1>5. ASSUME NEW i \in 2..n - 1
        PROVE  Link(s, g, rest[i - 1], fewer[i - 1], rest[i], fewer[i])
    <2>1. i \in 2..n /\ i \in 1..n - 1 /\ i - 1 \in 1..n - 1
      BY <1>1
    <2> QED
      BY <1>1, <1>3, <2>1 DEF Chain, n
  <1>6. Chain(s, g, rest, fewer)
    BY <1>1, <1>4, <1>5 DEF Chain
  <1>7. fewer[n - 1] = phrases[n - 1]
    BY <1>1, <1>3
  <1> QED
    BY <1>2, <1>6, <1>7 DEF n, rest

\* Counting an element leaves the phrases as they are.
LEMMA ChainCounted ==
    ASSUME NEW s, NEW g, NEW frames \in Seq(Frames), frames # <<>>,
           NEW phrases \in [1..Len(frames) -> Phrases(s)], Chain(s, g, frames, phrases),
           NEW counted, Len(counted) = Len(frames),
           \A i \in 1..Len(frames) - 1 : counted[i] = frames[i],
           counted[Len(frames)].return_state = frames[Len(frames)].return_state,
           counted[Len(frames)].elem_type = frames[Len(frames)].elem_type
    PROVE  Chain(s, g, counted, phrases)
  <1>1. Len(frames) \in Nat /\ Len(frames) >= 1
    BY HasTop
  <1>2. ASSUME NEW i \in 2..Len(frames)
        PROVE  Link(s, g, counted[i - 1], phrases[i - 1], counted[i], phrases[i])
    <2>1. counted[i - 1] = frames[i - 1]
      BY <1>1
    <2>2. /\ counted[i].return_state = frames[i].return_state
          /\ counted[i].elem_type = frames[i].elem_type
      BY <1>1
    <2>3. Link(s, g, frames[i - 1], phrases[i - 1], frames[i], phrases[i])
      BY DEF Chain
    <2> QED
      BY <2>1, <2>2, <2>3 DEF Link, IsReturnFrame, IsFieldFrame
  <1> QED
    BY <1>2 DEF Chain

----------------------------------------------------------------------------
(* Values: what a frame does with one, and what it awaits of the next.     *)

\* A value of the type that a frame awaits makes it ready: the productions of fields,
\* elements and entries.
LEMMA AwaitedValue ==
    ASSUME NEW s \in Seq(Tokens), NEW g, Closed(s, g), NEW f \in Frames,
           NEW begin \in Places(s), NEW st, NEW type, NEW at \in Places(s),
           NEW to \in Places(s),
           Awaits(s, g, f, begin, st, type, at), Value(type, at, to) \in g.values
    PROVE  Ready(s, g, f, begin, st, to)
  <1>1. /\ f.remaining \in Nat /\ begin \in Int /\ at \in Int
    BY DEF Frames, Places
  <1>2. CASE st = "FieldEnd"
    BY <1>2 DEF Awaits, Ready
  <1>3. CASE st \in {"ListValue", "SetValue"}
    <2>1. BeginsSequential(s, begin, SequentialOf[st], f) /\ type = f.elem_type
          /\ ElementsRemain(s, g, f, begin, f.remaining + 1, at)
      BY <1>3 DEF Awaits
    <2> DEFINE e == Elements(f.elem_type, s[begin][3] - (f.remaining + 1), begin + 1, at)
    <2>2. e \in g.elements /\ Value(e.type, e.to, to) \in g.values
      BY <2>1 DEF ElementsRemain, Elements
    <2>3. Elements(e.type, e.count + 1, e.from, to) \in g.elements
      BY <2>2 DEF Closed, ElementLists
    <2>4. e.count + 1 = s[begin][3] - f.remaining /\ e.type = f.elem_type
          /\ e.from = begin + 1
      BY <1>1, <2>1 DEF BeginsSequential, Elements
    <2>5. ElementsRemain(s, g, f, begin, f.remaining, to)
      BY <2>3, <2>4 DEF ElementsRemain
    <2> QED
      BY <1>3, <2>1, <2>5 DEF Ready
  <1>4. CASE st = "MapValue"
    <2>1. BeginsMap(s, begin, f) /\ type = f.elem_type
          /\ EntriesRemain(s, g, f, begin, f.remaining, at)
      BY <1>4 DEF Awaits
    <2> QED
      BY <1>4, <2>1 DEF Ready
  <1>5. CASE st = "MapKey"
    <2>1. BeginsMap(s, begin, f) /\ type = f.value_type
      BY <1>5 DEF Awaits
    <2>2. PICK middle \in Places(s) :
            /\ EntriesRemain(s, g, f, begin, f.remaining + 1, middle)
            /\ Value(f.elem_type, middle, at) \in g.values
      BY <1>5 DEF Awaits
    <2> DEFINE e == Entries(f.elem_type, f.value_type, s[begin][4] - (f.remaining + 1),
                            begin + 1, middle)
    <2>3. /\ e \in g.entries /\ Value(e.key, e.to, at) \in g.values
          /\ Value(e.value, at, to) \in g.values
      BY <2>1, <2>2 DEF EntriesRemain, Entries
    <2>4. Entries(e.key, e.value, e.count + 1, e.from, to) \in g.entries
      BY <2>3 DEF Closed, EntryLists
    <2>5. /\ e.count + 1 = s[begin][4] - f.remaining
          /\ e.key = f.elem_type /\ e.value = f.value_type /\ e.from = begin + 1
      BY <1>1, <2>1 DEF BeginsMap, Entries
    <2>6. EntriesRemain(s, g, f, begin, f.remaining, to)
      BY <2>4, <2>5 DEF EntriesRemain
    <2> QED
      BY <1>5, <2>1, <2>6 DEF Ready
  <1> QED
    BY <1>2, <1>3, <1>4, <1>5 DEF Awaits

\* A frame that is ready in a value state awaits the value that begins here: of a field,
\* for its end; of an element, with one less to come; of a key, for its value; of a
\* value, with one entry less to come.
LEMMA ReadyAwaits ==
    ASSUME NEW s \in Seq(Tokens), NEW g, NEW f \in Frames, NEW begin, NEW at \in Places(s)
    PROVE  /\ Ready(s, g, f, begin, "FieldValue", at) =>
                Awaits(s, g, f, begin, "FieldEnd", f.elem_type, at)
           /\ Ready(s, g, f, begin, "MapKey", at) =>
                Awaits(s, g, f, begin, "MapValue", f.elem_type, at)
           /\ \A less \in Frames :
                /\ less.remaining = f.remaining - 1
                /\ less.elem_type = f.elem_type /\ less.value_type = f.value_type
                => /\ \A st \in {"ListValue", "SetValue"} :
                        Ready(s, g, f, begin, st, at) =>
                          Awaits(s, g, less, begin, st, f.elem_type, at)
                   /\ Ready(s, g, f, begin, "MapValue", at) =>
                        Awaits(s, g, less, begin, "MapKey", f.value_type, at)
  <1>1. /\ Ready(s, g, f, begin, "FieldValue", at) =>
             Awaits(s, g, f, begin, "FieldEnd", f.elem_type, at)
        /\ Ready(s, g, f, begin, "MapKey", at) =>
             Awaits(s, g, f, begin, "MapValue", f.elem_type, at)
    BY DEF Ready, Awaits
  <1>2. ASSUME NEW less \in Frames, less.remaining = f.remaining - 1,
               less.elem_type = f.elem_type, less.value_type = f.value_type
        PROVE  /\ \A st \in {"ListValue", "SetValue"} :
                    Ready(s, g, f, begin, st, at) =>
                      Awaits(s, g, less, begin, st, f.elem_type, at)
               /\ Ready(s, g, f, begin, "MapValue", at) =>
                    Awaits(s, g, less, begin, "MapKey", f.value_type, at)
    <2>1. less.remaining + 1 = f.remaining
      BY <1>2 DEF Frames
    <2>2. /\ \A c : BeginsSequential(s, begin, c, f) => BeginsSequential(s, begin, c, less)
          /\ BeginsMap(s, begin, f) => BeginsMap(s, begin, less)
      BY <1>2 DEF BeginsSequential, BeginsMap
    <2>3. /\ ElementsRemain(s, g, f, begin, f.remaining, at) =>
               ElementsRemain(s, g, less, begin, less.remaining + 1, at)
          /\ \A middle : EntriesRemain(s, g, f, begin, f.remaining, middle) =>
               EntriesRemain(s, g, less, begin, less.remaining + 1, middle)
      BY <1>2, <2>1 DEF ElementsRemain, EntriesRemain
    <2> QED
      BY <1>2, <2>2, <2>3 DEF Ready, Awaits
  <1> QED
    BY <1>1, <1>2

----------------------------------------------------------------------------
(* The parts that handlers share: a value is entered, a value ends.        *)

\* In a state with a stack, the phrases of the stack say how far the struct of the
\* message has been read.
LEMMA ParsedByPhrases ==
    ASSUME NEW s, NEW g, NEW st \in States \ RootStates, NEW frames,
           NEW phrases \in [1..Len(frames) -> Phrases(s)], Chain(s, g, frames, phrases),
           OnTop(s, g, st, frames[Len(frames)], phrases[Len(frames)])
    PROVE  Parsed(s, g, st, frames)
  BY DEF Parsed, RootStates

\* The same when a frame is pushed, with its phrase.
LEMMA ParsedPush ==
    ASSUME NEW s, NEW g, NEW st \in States \ RootStates,
           NEW frames \in Seq(Frames), frames # <<>>,
           NEW phrases \in [1..Len(frames) -> Phrases(s)], Chain(s, g, frames, phrases),
           NEW f \in Frames, NEW q \in Phrases(s),
           Link(s, g, frames[Len(frames)], phrases[Len(frames)], f, q),
           OnTop(s, g, st, f, q)
    PROVE  Parsed(s, g, st, Append(frames, f))
  <1>1. PICK longer \in [1..Len(frames) + 1 -> Phrases(s)] :
          longer[Len(frames) + 1] = q /\ Chain(s, g, Append(frames, f), longer)
    BY ChainPush
  <1>2. /\ Len(Append(frames, f)) = Len(frames) + 1
        /\ Append(frames, f)[Len(frames) + 1] = f
    BY Push
  <1> QED
    BY <1>1, <1>2, ParsedByPhrases

\* The same when the top is taken off.
LEMMA ParsedPop ==
    ASSUME NEW s, NEW g, NEW st \in States \ RootStates,
           NEW frames \in Seq(Frames), Len(frames) > 1,
           NEW phrases \in [1..Len(frames) -> Phrases(s)], Chain(s, g, frames, phrases),
           OnTop(s, g, st, frames[Len(frames) - 1], phrases[Len(frames) - 1])
    PROVE  Parsed(s, g, st, SubSeq(frames, 1, Len(frames) - 1))
  <1> DEFINE n == Len(frames)
             rest == SubSeq(frames, 1, n - 1)
  <1>1. n \in Nat /\ Len(rest) = n - 1 /\ \A i \in 1..n - 1 : rest[i] = frames[i]
    BY PopTop, HasTop
  <1>2. PICK fewer \in [1..n - 1 -> Phrases(s)] :
          fewer[n - 1] = phrases[n - 1] /\ Chain(s, g, rest, fewer)
    BY ChainPop
  <1>3. n > 1
    OBVIOUS
  <1> HIDE DEF n, rest
  <1>4. rest[n - 1] = frames[n - 1]
    BY <1>1, <1>3
  <1>5. OnTop(s, g, st, rest[Len(rest)], fewer[Len(rest)])
    BY <1>1, <1>2, <1>4 DEF n
  <1> QED
    BY <1>1, <1>2, <1>5, ParsedByPhrases DEF n, rest

\* The next token has a place.
LEMMA HereIsAPlace ==
    ASSUME NEW s \in Seq(Tokens)
    PROVE  Here(s) \in Places(s) /\ Here(s) \in Nat \ {0}
  BY DEF Here, Places

\* handleValue: a scalar is a value, a container's value begins.
LEMMA HandleValueParses ==
    ASSUME consumed \in Seq(Tokens), NEW g, Closed(consumed', g),
           NEW below \in Seq(Frames), below # <<>>,
           NEW phrases \in [1..Len(below) -> Phrases(consumed)],
           Chain(consumed, g, below, phrases),
           NEW ret \in ValueReturns, NEW type,
           Awaits(consumed, g, below[Len(below)], phrases[Len(below)].begin, ret, type,
                  Here(consumed)),
           HandleValue(type, ret, below)
    PROVE  Parsed(consumed', g, state', stack')
  <1> DEFINE f == below[Len(below)]
             p == phrases[Len(below)]
  <1>1. /\ f \in Frames /\ Len(below) \in Nat /\ Len(below) >= 1
        /\ p \in Phrases(consumed) /\ p.begin \in Places(consumed)
    BY HasTop DEF Phrases
  <1>2. Here(consumed) \in Places(consumed) /\ Here(consumed) \in Nat
    BY HereIsAPlace
  <1> HIDE DEF f, p
  <1>3. Awaits(consumed, g, f, p.begin, ret, type, Here(consumed))
    BY DEF f, p
  <1>4. ret \in States \ RootStates
    BY DEF ValueReturns, States, RootStates
  <1>5. CASE /\ type = "Scalar" /\ Forward(<<"Value">>) /\ Goto(ret) /\ stack' = below
    <2> DEFINE s2 == Append(consumed, <<"Value">>)
    <2>1. <<"Value">> \in Tokens
      BY DEF Tokens
    <2>2. /\ Grows(consumed, s2) /\ Len(s2) = Len(consumed) + 1
          /\ s2[Len(consumed) + 1] = <<"Value">>
      BY <2>1, ReadGrows
    <2>3. consumed' = s2 /\ state' = ret /\ stack' = below
      BY <1>5 DEF Forward, Read, Goto
    <2> HIDE DEF s2
    <2>4. /\ Here(consumed) \in DOMAIN s2 /\ s2[Here(consumed)] = <<"Value">>
          /\ Here(s2) = Here(consumed) + 1 /\ s2 \in Seq(Tokens)
      BY <2>2, <1>2 DEF Here, Grows
    <2>5. Value("Scalar", Here(consumed), Here(s2)) \in g.values
      BY <2>3, <2>4 DEF Closed, Scalars
    <2>6. Awaits(s2, g, f, p.begin, ret, type, Here(consumed))
      BY <1>3, <2>2, AwaitsGrows
    <2>7. /\ p.begin \in Places(s2) /\ Here(consumed) \in Places(s2)
          /\ Here(s2) \in Places(s2)
      BY <1>1, <1>2, <2>2, <2>4, PlacesGrow, HereIsAPlace
    <2>8. Ready(s2, g, f, p.begin, ret, Here(s2))
      BY <1>1, <1>5, <2>3, <2>4, <2>5, <2>6, <2>7, AwaitedValue
    <2>9. OnTop(s2, g, ret, f, p)
      BY <2>8 DEF OnTop, ValueReturns
    <2>10. phrases \in [1..Len(below) -> Phrases(s2)] /\ Chain(s2, g, below, phrases)
      BY <2>2, ChainGrows
    <2> QED
      BY <1>4, <2>3, <2>9, <2>10, ParsedByPhrases DEF f, p
  <1>6. CASE /\ type \in ContainerTypes /\ Goto(BeginOf[type])
             /\ stack' = Append(below, ReturnFrame(ret))
             /\ UNCHANGED <<origin_message, consumed>>
    <2> DEFINE above == ReturnFrame(ret)
               q == [begin |-> Here(consumed), type |-> type]
    <2>1. above \in Frames /\ IsReturnFrame(above) /\ above.return_state = ret
      BY <1>4 DEF ReturnFrame, Frame, Frames, IsReturnFrame, NoType
    <2>2. q \in Phrases(consumed) /\ q.begin = Here(consumed) /\ q.type = type
      BY <1>2, <1>6 DEF Phrases, FieldTypes
    <2>3. /\ stack' = Append(below, above) /\ state' = BeginOf[type]
          /\ consumed' = consumed
      BY <1>6 DEF Goto
    <2>4. /\ state' \in {"StructBegin", "ListBegin", "SetBegin", "MapBegin"}
          /\ state' \in States \ RootStates
      BY <1>6, <2>3 DEF ContainerTypes, BeginOf, States, RootStates
    <2> HIDE DEF above, q
    <2>5. Link(consumed, g, f, p, above, q)
      BY <1>3, <2>1, <2>2 DEF Link
    <2>6. OnTop(consumed, g, state', above, q)
      BY <1>6, <2>2, <2>3, <2>4 DEF OnTop
    <2> QED
      BY <2>1, <2>2, <2>3, <2>4, <2>5, <2>6, ParsedPush DEF f, p
  <1> QED
    BY <1>5, <1>6 DEF HandleValue

\* A value ends with its frame on top: the frame is taken off, and what the value
\* belongs to goes on.
LEMMA ReturnParses ==
    ASSUME NEW s \in Seq(Tokens), NEW g, Closed(s, g),
           NEW frames \in Seq(Frames), frames # <<>>, Nested(frames),
           IsReturnFrame(frames[Len(frames)]),
           NEW phrases \in [1..Len(frames) -> Phrases(s)], Chain(s, g, frames, phrases),
           Value(phrases[Len(frames)].type, phrases[Len(frames)].begin, Here(s)) \in g.values
    PROVE  Parsed(s, g, frames[Len(frames)].return_state, SubSeq(frames, 1, Len(frames) - 1))
  <1> DEFINE n == Len(frames)
             rest == SubSeq(frames, 1, n - 1)
             ret == frames[n].return_state
  <1>1. n \in Nat /\ n >= 1
    BY HasTop
  <1>2. CASE n = 1
    <2>1. ret = "MessageEnd"
      BY <1>2 DEF Nested
    <2>2. Value("Struct", 2, Here(s)) \in g.values
      BY <1>2 DEF Chain
    <2> QED
      BY <2>1, <2>2 DEF Parsed
  <1>3. CASE n > 1
    <2> DEFINE f == frames[n - 1]
               p == phrases[n - 1]
               q == phrases[n]
    <2>1. n \in 2..n /\ n - 1 \in 1..n /\ n - 1 \in Nat /\ n \in 1..n
      BY <1>1, <1>3
    <2>2. ret \in ValueReturns
      BY <2>1 DEF Nested
    <2>3. Link(s, g, f, p, frames[n], q)
      BY <2>1 DEF Chain
    <2>4. Awaits(s, g, f, p.begin, ret, q.type, q.begin)
      BY <2>3 DEF Link
    <2>5. /\ f \in Frames /\ p.begin \in Places(s) /\ q.begin \in Places(s)
          /\ Here(s) \in Places(s)
      BY <2>1, HereIsAPlace DEF Phrases
    <2>6. Ready(s, g, f, p.begin, ret, Here(s))
      <3> HIDE DEF f, p, ret
      <3> QED
        BY <2>4, <2>5, AwaitedValue
    <2>7. OnTop(s, g, ret, f, p)
      BY <2>2, <2>6 DEF OnTop, ValueReturns
    <2>8. ret \in States \ RootStates
      BY <2>2 DEF ValueReturns, States, RootStates
    <2> QED
      BY <1>3, <2>7, <2>8, ParsedPop
  <1>4. n = 1 \/ n > 1
    <2> HIDE DEF n
    <2> QED
      BY <1>1
  <1> QED
    BY <1>2, <1>3, <1>4 DEF n, ret, rest

----------------------------------------------------------------------------
(* Every handler applies a production.                                     *)

\* A handler reads a token of the grammar, or none.
LEMMA HandleReads ==
    ASSUME consumed \in Seq(Tokens), Handle
    PROVE  \/ consumed' = consumed
           \/ \E t \in Tokens : consumed' = Append(consumed, t)
  <1>1. ASSUME NEW t, Forward(t) \/ Read(t)
        PROVE  consumed' = Append(consumed, t)
    BY <1>1 DEF Forward, Read
  <1>2. TypesNow \subseteq FieldTypes /\ SizesNow \subseteq Nat
    BY SentTypesAreTypes
  <1>3. ASSUME NEW type, NEW ret, NEW below, HandleValue(type, ret, below)
        PROVE  consumed' = consumed \/ \E t \in Tokens : consumed' = Append(consumed, t)
    <2>1. <<"Value">> \in Tokens
      BY DEF Tokens
    <2> QED
      BY <1>1, <1>3, <2>1 DEF HandleValue
  <1>4. CASE MessageBegin
    <2>1. PICK h \in Headers : Forward(<<"MessageBegin", h[1], h[2]>>)
      BY <1>4 DEF MessageBegin
    <2>2. <<"MessageBegin", h[1], h[2]>> \in Tokens
      BY ThriftAssumption DEF Tokens
    <2> QED
      BY <1>1, <2>1, <2>2
  <1>5. CASE MessageEnd \/ StructBegin \/ StructEnd \/ FieldEnd
    BY <1>1, <1>5 DEF MessageEnd, StructBegin, StructEnd, FieldEnd, Tokens
  <1>6. CASE FieldBegin
    <2>1. CASE Read(StopField)
      BY <1>1, <2>1 DEF Tokens
    <2>2. ASSUME NEW type \in TypesNow, Forward(<<"FieldBegin", type>>)
          PROVE  \E t \in Tokens : consumed' = Append(consumed, t)
      <3>1. <<"FieldBegin", type>> \in Tokens
        BY <1>2 DEF Tokens
      <3> QED
        BY <1>1, <2>2, <3>1
    <2> QED
      BY <1>6, <2>1, <2>2 DEF FieldBegin
  <1>7. CASE FieldValue \/ MapKey \/ MapValue
    BY <1>3, <1>7 DEF FieldValue, MapKey, MapValue, LeaveContainer
  <1>8. ASSUME NEW c \in Sequentials, SequentialValue(c)
        PROVE  consumed' = consumed \/ \E t \in Tokens : consumed' = Append(consumed, t)
    BY <1>3, <1>8 DEF SequentialValue, LeaveContainer
  <1>9. ASSUME NEW c \in Sequentials, SequentialBegin(c)
        PROVE  \E t \in Tokens : consumed' = Append(consumed, t)
    <2>1. PICK type \in TypesNow, size \in SizesNow : Forward(<<BeginOf[c], type, size>>)
      BY <1>9 DEF SequentialBegin
    <2>2. BeginOf[c] \in {"ListBegin", "SetBegin"} /\ type \in FieldTypes /\ size \in Nat
      BY <1>2 DEF Sequentials, BeginOf
    <2>3. <<BeginOf[c], type, size>> \in Tokens
      BY <2>2 DEF Tokens
    <2> QED
      BY <1>1, <2>1, <2>3
  <1>10. ASSUME NEW c \in Sequentials \cup {"Map"}, ContainerEnd(c)
         PROVE  \E t \in Tokens : consumed' = Append(consumed, t)
    <2>1. <<EndOf[c]>> \in Tokens
      BY DEF Sequentials, EndOf, Tokens
    <2> QED
      BY <1>1, <1>10, <2>1 DEF ContainerEnd
  <1>11. CASE MapBegin
    <2>1. PICK key \in TypesNow, value \in TypesNow, size \in SizesNow :
            Forward(<<"MapBegin", key, value, size>>)
      BY <1>11 DEF MapBegin
    <2>2. key \in FieldTypes /\ value \in FieldTypes /\ size \in Nat
      BY <1>2
    <2>3. <<"MapBegin", key, value, size>> \in Tokens
      BY <2>2 DEF Tokens
    <2> QED
      BY <1>1, <2>1, <2>3
  <1> QED
    BY <1>4, <1>5, <1>6, <1>7, <1>8, <1>9, <1>10, <1>11 DEF Handle

\* Before a handler, the struct has been read as far as it goes.
LEMMA BeforeHandler ==
    ASSUME IInv, GrammarInv, Handle, NEW g, Closed(consumed', g)
    PROVE  /\ consumed \in Seq(Tokens) /\ Grows(consumed, consumed') /\ Closed(consumed, g)
           /\ stack \in Seq(Frames) /\ Nested(stack)
           /\ state \notin RootStates =>
                /\ stack # <<>>
                /\ \E phrases \in [1..Len(stack) -> Phrases(consumed)] :
                     /\ Chain(consumed, g, stack, phrases)
                     /\ OnTop(consumed, g, state, Top, phrases[Len(stack)])
  <1>1. consumed \in Seq(Tokens) /\ stack \in Seq(Frames) /\ Nested(stack)
        /\ Matches(stack, state) /\ state \in States
    BY DEF IInv, TypeOK, StackDiscipline, GrammarInv
  <1>2. Grows(consumed, consumed')
    BY <1>1, HandleReads, ReadGrows DEF Grows
  <1>3. Closed(consumed, g)
    BY <1>2, ClosedForPrefix
  <1>4. Parsed(consumed, g, state, stack)
    BY <1>3 DEF GrammarInv
  <1>5. ASSUME state \notin RootStates
        PROVE  /\ stack # <<>>
               /\ \E phrases \in [1..Len(stack) -> Phrases(consumed)] :
                    /\ Chain(consumed, g, stack, phrases)
                    /\ OnTop(consumed, g, state, Top, phrases[Len(stack)])
    <2>1. stack # <<>>
      BY <1>1, <1>5 DEF Matches, ReturnsOnto
    <2>2. state \notin {"null", "MessageBegin", "MessageEnd", "Done"}
      BY <1>5 DEF RootStates
    <2> QED
      BY <1>4, <2>1, <2>2 DEF Parsed, Top
  <1> QED
    BY <1>1, <1>2, <1>3, <1>5

\* A frame that is no value's lies on a value's.
LEMMA UnderTop ==
    ASSUME NEW s, NEW g, NEW frames \in Seq(Frames), frames # <<>>, Nested(frames),
           ~IsReturnFrame(frames[Len(frames)]),
           NEW phrases \in [1..Len(frames) -> Phrases(s)], Chain(s, g, frames, phrases)
    PROVE  /\ Len(frames) > 1
           /\ Link(s, g, frames[Len(frames) - 1], phrases[Len(frames) - 1],
                   frames[Len(frames)], phrases[Len(frames)])
           /\ phrases[Len(frames)] \in Phrases(s) /\ phrases[Len(frames) - 1] \in Phrases(s)
  <1> DEFINE n == Len(frames)
  <1>1. n \in Nat /\ n >= 1
    BY HasTop
  <1>2. n # 1
    BY DEF Nested
  <1> HIDE DEF n
  <1>3. n > 1 /\ n \in 2..n /\ n \in 1..n /\ n - 1 \in 1..n
    BY <1>1, <1>2
  <1> QED
    BY <1>3 DEF n, Chain

\* What reading one token does to the places and what stands there.
LEMMA OneToken ==
    ASSUME NEW s \in Seq(Tokens), NEW t \in Tokens
    PROVE  LET s2 == Append(s, t)
           IN  /\ s2 \in Seq(Tokens) /\ Grows(s, s2)
               /\ Is(s2, Here(s), t) /\ Here(s) \in DOMAIN s2 /\ s2[Here(s)] = t
               /\ Here(s2) = Here(s) + 1 /\ Len(s2) = Here(s)
               /\ Here(s) \in Nat /\ Here(s) >= 1
               /\ Here(s) \in Places(s) /\ Here(s) \in Places(s2) /\ Here(s2) \in Places(s2)
               /\ Places(s) \subseteq Places(s2) /\ Phrases(s) \subseteq Phrases(s2)
               /\ \A i \in DOMAIN s : i \in DOMAIN s2 /\ s2[i] = s[i]
               /\ \A i, u : Is(s, i, u) => Is(s2, i, u)
  <1> DEFINE s2 == Append(s, t)
  <1>1. /\ Grows(s, s2) /\ Len(s2) = Len(s) + 1 /\ s2[Len(s) + 1] = t
        /\ s2 \in Seq(Tokens) /\ Len(s) \in Nat
    BY ReadGrows DEF Grows
  <1> HIDE DEF s2
  <1>2. /\ Places(s) \subseteq Places(s2) /\ DOMAIN s2 = 1..Len(s2)
        /\ \A i \in DOMAIN s : i \in DOMAIN s2 /\ s2[i] = s[i]
        /\ \A i, u : Is(s, i, u) => Is(s2, i, u)
    BY <1>1, PlacesGrow
  <1>3. Phrases(s) \subseteq Phrases(s2)
    BY <1>2 DEF Phrases
  <1>4. /\ Is(s2, Here(s), t) /\ Here(s) \in DOMAIN s2 /\ s2[Here(s)] = t
        /\ Here(s2) = Here(s) + 1 /\ Len(s2) = Here(s)
        /\ Here(s) \in Nat /\ Here(s) >= 1
    BY <1>1, <1>2 DEF Is, Here
  <1>5. Here(s) \in Places(s) /\ Here(s) \in Places(s2) /\ Here(s2) \in Places(s2)
    BY <1>1, <1>2, HereIsAPlace
  <1> QED
    BY <1>1, <1>2, <1>3, <1>4, <1>5 DEF s2

\* The handlers of a message.
LEMMA MessageParses ==
    ASSUME IInv, GrammarInv, NEW g, Closed(consumed', g), MessageBegin \/ MessageEnd
    PROVE  Parsed(consumed', g, state', stack')
  <1>1. Handle
    BY DEF Handle
  <1>2. consumed \in Seq(Tokens) /\ Closed(consumed, g)
    BY <1>1, BeforeHandler
  <1>3. CASE MessageBegin
    <2> DEFINE f == ReturnFrame("MessageEnd")
               q == [begin |-> 2, type |-> "Struct"]
               phrases == [i \in 1..1 |-> q]
    <2>1. consumed = <<>>
      BY <1>3 DEF MessageBegin, In, GrammarInv, HeaderIsRead
    <2>2. PICK h \in Headers : consumed' = Append(consumed, <<"MessageBegin", h[1], h[2]>>)
      BY <1>3 DEF MessageBegin, Forward, Read
    <2>3. Len(consumed') = 1
      BY <2>1, <2>2
    <2>4. stack' = <<f>> /\ state' = "StructBegin"
      BY <1>3 DEF MessageBegin, Goto
    <2>5. Len(stack') = 1 /\ stack'[1] = f
      BY <2>4
    <2>6. q \in Phrases(consumed') /\ Here(consumed') = 2
      BY <2>3 DEF Phrases, Places, FieldTypes, ContainerTypes, Here
    <2>7. phrases \in [1..1 -> Phrases(consumed')] /\ phrases[1] = q
      BY <2>6
    <2>8. q.begin = 2 /\ q.type = "Struct"
      OBVIOUS
    <2> HIDE DEF q, phrases
    <2>9. Chain(consumed', g, stack', phrases)
      BY <2>5, <2>7, <2>8 DEF Chain
    <2>10. OnTop(consumed', g, "StructBegin", stack'[1], q)
      BY <2>6, <2>8 DEF OnTop, ContainerTypes, BeginOf
    <2>11. "StructBegin" \in States \ RootStates
      BY DEF States, RootStates
    <2> QED
      BY <2>4, <2>5, <2>7, <2>9, <2>10, <2>11, ParsedByPhrases
  <1>4. CASE MessageEnd
    <2>1. Value("Struct", 2, Here(consumed)) \in g.values
      BY <1>2, <1>4 DEF MessageEnd, In, GrammarInv, Parsed
    <2>2. consumed' = Append(consumed, <<"MessageEnd">>) /\ state' = "Done"
      BY <1>4 DEF MessageEnd, Forward, Read, Goto
    <2>3. <<"MessageEnd">> \in Tokens
      BY DEF Tokens
    <2>4. Is(consumed', Here(consumed), <<"MessageEnd">>) /\ Len(consumed') = Here(consumed)
      BY <1>2, <2>2, <2>3, OneToken
    <2> QED
      BY <2>1, <2>2, <2>4 DEF Parsed
  <1> QED
    BY <1>3, <1>4

\* The handlers of a struct.
LEMMA StructParses ==
    ASSUME IInv, GrammarInv, NEW g, Closed(consumed', g), StructBegin \/ StructEnd
    PROVE  Parsed(consumed', g, state', stack')
  <1>1. Handle
    BY DEF Handle
  <1>2. state \in {"StructBegin", "StructEnd"} /\ state \notin RootStates
        /\ state \in StructStates
    BY DEF StructBegin, StructEnd, In, RootStates, StructStates
  <1>3. /\ consumed \in Seq(Tokens) /\ stack \in Seq(Frames) /\ Nested(stack)
        /\ stack # <<>> /\ IsReturnFrame(Top)
    BY <1>1, <1>2, BeforeHandler, TopOfStructStates
  <1>4. PICK phrases \in [1..Len(stack) -> Phrases(consumed)] :
          /\ Chain(consumed, g, stack, phrases)
          /\ OnTop(consumed, g, state, Top, phrases[Len(stack)])
    BY <1>1, <1>2, BeforeHandler
  <1> DEFINE p == phrases[Len(stack)]
  <1>5. p \in Phrases(consumed) /\ p.begin \in Nat
    BY <1>3, HasTop DEF Phrases, Places
  <1> HIDE DEF p
  <1>6. CASE StructBegin
    <2>1. /\ consumed' = Append(consumed, <<"StructBegin">>) /\ state' = "FieldBegin"
          /\ stack' = stack /\ state = "StructBegin"
      BY <1>6 DEF StructBegin, In, Forward, Read, Goto
    <2>2. <<"StructBegin">> \in Tokens
      BY DEF Tokens
    <2>3. p.begin = Here(consumed) /\ p.type = "Struct"
      BY <1>4, <2>1 DEF OnTop, p, ContainerTypes, BeginOf
    <2>4. /\ Grows(consumed, consumed') /\ Is(consumed', p.begin, <<"StructBegin">>)
          /\ Here(consumed') = p.begin + 1
      BY <1>3, <2>1, <2>2, <2>3, OneToken
    <2>5. Fields(p.begin + 1, p.begin + 1) \in g.fields
      BY <2>4 DEF Is, Closed, FieldLists
    <2>6. OnTop(consumed', g, "FieldBegin", Top, p)
      BY <2>3, <2>4, <2>5 DEF OnTop
    <2>7. /\ phrases \in [1..Len(stack) -> Phrases(consumed')]
          /\ Chain(consumed', g, stack, phrases)
      BY <1>4, <2>4, ChainGrows
    <2>8. "FieldBegin" \in States \ RootStates
      BY DEF States, RootStates
    <2> QED
      BY <2>1, <2>6, <2>7, <2>8, ParsedByPhrases DEF Top, p
  <1>7. CASE StructEnd
    <2>1. /\ consumed' = Append(consumed, <<"StructEnd">>) /\ state' = Top.return_state
          /\ stack' = Pop /\ state = "StructEnd"
      BY <1>7 DEF StructEnd, In, Read, Goto
    <2>2. <<"StructEnd">> \in Tokens
      BY DEF Tokens
    <2>3. /\ p.type = "Struct" /\ Is(consumed, p.begin, <<"StructBegin">>)
          /\ Is(consumed, Len(consumed), StopField)
          /\ Fields(p.begin + 1, Len(consumed)) \in g.fields
      BY <1>4, <2>1 DEF OnTop, p
    <2>4. /\ Grows(consumed, consumed') /\ consumed' \in Seq(Tokens)
          /\ Is(consumed', p.begin, <<"StructBegin">>)
          /\ Is(consumed', Len(consumed), StopField)
          /\ Is(consumed', Here(consumed), <<"StructEnd">>)
          /\ Here(consumed') = Here(consumed) + 1
      BY <1>3, <2>1, <2>2, <2>3, OneToken
    <2>5. Here(consumed) = Len(consumed) + 1 /\ Here(consumed') = Len(consumed) + 2
      BY <1>3, <2>4 DEF Here
    <2>6. Value("Struct", p.begin, Len(consumed) + 2) \in g.values
      BY <2>3, <2>4, <2>5 DEF Closed, Structs, Is
    <2>7. /\ phrases \in [1..Len(stack) -> Phrases(consumed')]
          /\ Chain(consumed', g, stack, phrases)
      BY <1>4, <2>4, ChainGrows
    <2>8. Value(p.type, p.begin, Here(consumed')) \in g.values
      BY <2>3, <2>5, <2>6
    <2> QED
      BY <1>3, <2>1, <2>4, <2>7, <2>8, ReturnParses DEF Top, Pop, p
  <1> QED
    BY <1>6, <1>7

\* The handlers of fields.
LEMMA FieldsParse ==
    ASSUME IInv, GrammarInv, NEW g, Closed(consumed', g), FieldBegin \/ FieldValue \/ FieldEnd
    PROVE  Parsed(consumed', g, state', stack')
  <1>1. Handle
    BY DEF Handle
  <1>2. state \in {"FieldBegin", "FieldValue", "FieldEnd"} /\ state \notin RootStates
    BY DEF FieldBegin, FieldValue, FieldEnd, In, RootStates
  <1>3. /\ consumed \in Seq(Tokens) /\ stack \in Seq(Frames) /\ Nested(stack) /\ stack # <<>>
        /\ Top \in Frames
    BY <1>1, <1>2, BeforeHandler, HasTop DEF Top
  <1>4. PICK phrases \in [1..Len(stack) -> Phrases(consumed)] :
          /\ Chain(consumed, g, stack, phrases)
          /\ OnTop(consumed, g, state, Top, phrases[Len(stack)])
    BY <1>1, <1>2, BeforeHandler
  <1> DEFINE p == phrases[Len(stack)]
  <1>5. p \in Phrases(consumed) /\ p.begin \in Nat
    BY <1>3, HasTop DEF Phrases, Places
  <1> HIDE DEF p
  <1>6. CASE FieldBegin
    <2>1. /\ state = "FieldBegin" /\ p.type = "Struct"
          /\ Is(consumed, p.begin, <<"StructBegin">>)
          /\ Fields(p.begin + 1, Here(consumed)) \in g.fields
      BY <1>4, <1>6 DEF FieldBegin, In, OnTop, p
    <2>2. CASE Read(StopField) /\ Goto("StructEnd") /\ UNCHANGED <<stack, origin_message>>
      <3>1. /\ consumed' = Append(consumed, StopField) /\ state' = "StructEnd"
            /\ stack' = stack
        BY <2>2 DEF Read, Goto
      <3>2. StopField \in Tokens
        BY DEF Tokens
      <3>3. /\ Grows(consumed, consumed') /\ Is(consumed', p.begin, <<"StructBegin">>)
            /\ Is(consumed', Here(consumed), StopField) /\ Len(consumed') = Here(consumed)
        BY <1>3, <2>1, <3>1, <3>2, OneToken
      <3>4. OnTop(consumed', g, "StructEnd", Top, p)
        BY <2>1, <3>3 DEF OnTop
      <3>5. /\ phrases \in [1..Len(stack) -> Phrases(consumed')]
            /\ Chain(consumed', g, stack, phrases)
        BY <1>4, <3>3, ChainGrows
      <3>6. "StructEnd" \in States \ RootStates
        BY DEF States, RootStates
      <3> QED
        BY <3>1, <3>4, <3>5, <3>6, ParsedByPhrases DEF Top, p
    <2>3. ASSUME NEW type \in TypesNow, Forward(<<"FieldBegin", type>>),
                 stack' = Append(stack, Frame("FieldEnd", type, NoType, 0)),
                 Goto("FieldValue")
          PROVE  Parsed(consumed', g, state', stack')
      <3> DEFINE f == Frame("FieldEnd", type, NoType, 0)
                 q == [begin |-> Here(consumed), type |-> type]
      <3>1. type \in FieldTypes
        BY SentTypesAreTypes
      <3>2. /\ f \in Frames /\ IsFieldFrame(f) /\ ~IsReturnFrame(f) /\ f.elem_type = type
        BY <3>1 DEF Frame, Frames, States, IsFieldFrame, IsReturnFrame, NoType,
                    FieldTypes, ContainerTypes
      <3>3. /\ consumed' = Append(consumed, <<"FieldBegin", type>>) /\ state' = "FieldValue"
            /\ stack' = Append(stack, f)
        BY <2>3 DEF Forward, Read, Goto
      <3>4. <<"FieldBegin", type>> \in Tokens
        BY <3>1 DEF Tokens
      <3>5. /\ Grows(consumed, consumed') /\ Is(consumed', p.begin, <<"StructBegin">>)
            /\ Is(consumed', Here(consumed), <<"FieldBegin", type>>)
            /\ Here(consumed') = Here(consumed) + 1
            /\ Here(consumed) \in Places(consumed')
        BY <1>3, <2>1, <3>3, <3>4, OneToken
      <3>6. q \in Phrases(consumed') /\ q.begin = Here(consumed)
        BY <3>1, <3>5 DEF Phrases
      <3> HIDE DEF f, q
      <3>7. Link(consumed', g, Top, p, f, q)
        BY <2>1, <3>2, <3>5, <3>6 DEF Link
      <3>8. OnTop(consumed', g, "FieldValue", f, q)
        BY <3>2, <3>5, <3>6 DEF OnTop, Ready, BeginsField
      <3>9. /\ phrases \in [1..Len(stack) -> Phrases(consumed')]
            /\ Chain(consumed', g, stack, phrases)
        BY <1>4, <3>5, ChainGrows
      <3>10. "FieldValue" \in States \ RootStates
        BY DEF States, RootStates
      <3> QED
        BY <1>3, <3>2, <3>3, <3>6, <3>7, <3>8, <3>9, <3>10, ParsedPush DEF Top, p
    <2> QED
      BY <1>6, <2>2, <2>3 DEF FieldBegin
  <1>7. CASE FieldValue
    <2>1. state = "FieldValue" /\ HandleValue(Top.elem_type, Top.return_state, stack)
      BY <1>7 DEF FieldValue, In
    <2>2. Top.return_state = "FieldEnd"
      BY <2>1 DEF IInv, StackDiscipline, Matches, RootStates, StructStates, IsFieldFrame, Top
    <2>3. Ready(consumed, g, Top, p.begin, "FieldValue", Here(consumed))
      BY <1>4, <2>1 DEF OnTop, p
    <2>4. Awaits(consumed, g, Top, p.begin, "FieldEnd", Top.elem_type, Here(consumed))
      BY <1>3, <2>3, ReadyAwaits, HereIsAPlace
    <2> QED
      BY <1>3, <1>4, <2>1, <2>2, <2>4, HandleValueParses DEF ValueReturns, Top, p
  <1>8. CASE FieldEnd
    <2> DEFINE n == Len(stack)
               under == phrases[n - 1]
    <2>1. /\ consumed' = Append(consumed, <<"FieldEnd">>) /\ state' = "FieldBegin"
          /\ stack' = Pop /\ state = "FieldEnd"
      BY <1>8 DEF FieldEnd, In, Forward, Read, Goto
    <2>2. IsFieldFrame(Top) /\ ~IsReturnFrame(Top)
      BY <2>1, TopOfValueStates DEF ValueReturns, ReturnsOnto
    <2>3. /\ n > 1 /\ Link(consumed, g, stack[n - 1], under, Top, p)
          /\ under \in Phrases(consumed)
      BY <1>3, <1>4, <2>2, UnderTop DEF Top, p
    <2> HIDE DEF under
    <2>4. /\ BeginsField(consumed, p.begin, Top)
          /\ Value(Top.elem_type, p.begin + 1, Here(consumed)) \in g.values
      BY <1>4, <2>1 DEF OnTop, Ready, p
    <2>5. /\ under.type = "Struct" /\ Is(consumed, under.begin, <<"StructBegin">>)
          /\ Fields(under.begin + 1, p.begin) \in g.fields
      BY <2>2, <2>3 DEF Link
    <2>6. <<"FieldEnd">> \in Tokens
      BY DEF Tokens
    <2>7. /\ Grows(consumed, consumed') /\ Is(consumed', under.begin, <<"StructBegin">>)
          /\ Is(consumed', p.begin, <<"FieldBegin", Top.elem_type>>)
          /\ Is(consumed', Here(consumed), <<"FieldEnd">>)
          /\ Here(consumed') = Here(consumed) + 1
      BY <1>3, <2>1, <2>4, <2>5, <2>6, OneToken DEF BeginsField
    <2>8. Top.elem_type \in FieldTypes
      BY <1>3, <2>2 DEF Frames, IsFieldFrame
    <2> DEFINE before == Fields(under.begin + 1, p.begin)
    <2>9. before.to = p.begin /\ before.from = under.begin + 1 /\ before \in g.fields
      BY <2>5 DEF Fields
    <2> HIDE DEF before
    <2>10. Fields(under.begin + 1, Here(consumed) + 1) \in g.fields
      BY <2>4, <2>7, <2>8, <2>9 DEF Closed, FieldLists, Is
    <2>11. OnTop(consumed', g, "FieldBegin", stack[n - 1], under)
      BY <2>5, <2>7, <2>10 DEF OnTop
    <2>12. /\ phrases \in [1..Len(stack) -> Phrases(consumed')]
           /\ Chain(consumed', g, stack, phrases)
      BY <1>4, <2>7, ChainGrows
    <2>13. "FieldBegin" \in States \ RootStates
      BY DEF States, RootStates
    <2> QED
      BY <1>3, <2>1, <2>3, <2>11, <2>12, <2>13, ParsedPop DEF Pop, under
  <1> QED
    BY <1>6, <1>7, <1>8

\* Counting an element on the stack leaves its phrases, and makes its top await the
\* element.
LEMMA OneLessAwaits ==
    ASSUME consumed \in Seq(Tokens), NEW g, stack \in Seq(Frames), stack # <<>>,
           Top.remaining # 0,
           NEW phrases \in [1..Len(stack) -> Phrases(consumed)],
           Chain(consumed, g, stack, phrases), NEW begin
    PROVE  /\ OneLess \in Seq(Frames) /\ OneLess # <<>> /\ Len(OneLess) = Len(stack)
           /\ Chain(consumed, g, OneLess, phrases)
           /\ LET top == OneLess[Len(OneLess)]
                  here == Here(consumed)
              IN  /\ \A st \in {"ListValue", "SetValue"} :
                       Ready(consumed, g, Top, begin, st, here) =>
                         Awaits(consumed, g, top, begin, st, Top.elem_type, here)
                  /\ Ready(consumed, g, Top, begin, "MapValue", here) =>
                       Awaits(consumed, g, top, begin, "MapKey", Top.value_type, here)
  <1>1. OneLess = [stack EXCEPT ![Len(stack)].remaining = @ - 1]
    BY DEF OneLess
  <1>2. /\ OneLess \in Seq(Frames) /\ Len(OneLess) = Len(stack) /\ OneLess # <<>>
        /\ \A i \in 1..Len(stack) - 1 : OneLess[i] = stack[i]
        /\ OneLess[Len(stack)].return_state = Top.return_state
        /\ OneLess[Len(stack)].elem_type = Top.elem_type
        /\ OneLess[Len(stack)].value_type = Top.value_type
        /\ OneLess[Len(stack)].remaining = Top.remaining - 1
    BY <1>1, CountTop DEF Top
  <1>3. Top \in Frames /\ OneLess[Len(OneLess)] \in Frames
    BY <1>2, HasTop DEF Top
  <1>4. Chain(consumed, g, OneLess, phrases)
    BY <1>2, ChainCounted DEF Top
  <1>5. Here(consumed) \in Places(consumed)
    BY HereIsAPlace
  <1> QED
    BY <1>2, <1>3, <1>4, <1>5, ReadyAwaits

\* Leaving a list, set or map: it has the elements that its first token promises.
LEMMA LeaveContainerParses ==
    ASSUME IInv, GrammarInv, Handle, NEW g, Closed(consumed', g),
           state \in {"ListValue", "SetValue", "MapKey"}, LeaveContainer
    PROVE  Parsed(consumed', g, state', stack')
  <1>1. state \notin RootStates /\ state \in ValueReturns
    BY DEF RootStates, ValueReturns
  <1>2. /\ consumed \in Seq(Tokens) /\ stack \in Seq(Frames) /\ Nested(stack) /\ stack # <<>>
        /\ ~IsReturnFrame(Top) /\ ReturnsOnto(Top, state)
    BY <1>1, BeforeHandler, TopOfValueStates
  <1>3. PICK phrases \in [1..Len(stack) -> Phrases(consumed)] :
          /\ Chain(consumed, g, stack, phrases)
          /\ OnTop(consumed, g, state, Top, phrases[Len(stack)])
    BY <1>1, BeforeHandler
  <1> DEFINE n == Len(stack)
             p == phrases[n]
             under == phrases[n - 1]
  <1>4. /\ n > 1 /\ Link(consumed, g, stack[n - 1], under, Top, p)
    BY <1>2, <1>3, UnderTop DEF Top
  <1>5. Ready(consumed, g, Top, p.begin, state, Here(consumed))
    BY <1>3 DEF OnTop
  <1> HIDE DEF p, under
  <1>6. /\ consumed' = consumed /\ stack' = Pop /\ state' = Top.return_state
        /\ Top.remaining = 0
    BY DEF LeaveContainer, Goto
  <1>7. /\ under.type \in {"List", "Set", "Map"} /\ state' = EndOf[under.type]
        /\ p.begin = under.begin
    BY <1>2, <1>4, <1>6 DEF Link, ReturnsOnto, IsContainerFrame, IsFieldFrame, EndOf
  <1>8. OnTop(consumed, g, state', stack[n - 1], under)
    <2>1. CASE state \in {"ListValue", "SetValue"}
      <3>1. under.type \in Sequentials /\ under.type = SequentialOf[state]
            /\ state' \in {"ListEnd", "SetEnd"}
        BY <1>2, <1>6, <1>7, <2>1 DEF ReturnsOnto, IsContainerFrame, EndOf, Sequentials,
                                      SequentialOf
      <3>2. /\ BeginsSequential(consumed, under.begin, under.type, Top)
            /\ ElementsRemain(consumed, g, Top, under.begin, 0, Here(consumed))
        BY <1>5, <1>6, <1>7, <2>1, <3>1 DEF Ready
      <3>3. Elements(consumed[under.begin][2], consumed[under.begin][3], under.begin + 1,
                     Here(consumed)) \in g.elements
        BY <3>2 DEF BeginsSequential, ElementsRemain
      <3> QED
        BY <1>7, <3>1, <3>2, <3>3 DEF OnTop, BeginsSequential
    <2>2. CASE state = "MapKey"
      <3>1. under.type = "Map" /\ state' = "MapEnd"
        BY <1>2, <1>6, <1>7, <2>2 DEF ReturnsOnto, IsContainerFrame, EndOf
      <3>2. /\ BeginsMap(consumed, under.begin, Top)
            /\ EntriesRemain(consumed, g, Top, under.begin, 0, Here(consumed))
        BY <1>5, <1>6, <1>7, <2>2 DEF Ready
      <3>3. Entries(consumed[under.begin][2], consumed[under.begin][3],
                    consumed[under.begin][4], under.begin + 1, Here(consumed)) \in g.entries
        BY <3>2 DEF BeginsMap, EntriesRemain
      <3> QED
        BY <3>1, <3>2, <3>3 DEF OnTop, BeginsMap
    <2> QED
      BY <2>1, <2>2
  <1>9. state' \in States \ RootStates
    BY <1>7 DEF EndOf, States, RootStates
  <1> QED
    BY <1>2, <1>3, <1>4, <1>6, <1>8, <1>9, ParsedPop DEF Pop, under

\* The handlers of lists and sets.
LEMMA SequentialsParse ==
    ASSUME IInv, GrammarInv, NEW g, Closed(consumed', g), NEW c \in Sequentials,
           SequentialBegin(c) \/ SequentialValue(c)
    PROVE  Parsed(consumed', g, state', stack')
  <1>1. Handle
    BY DEF Handle
  <1>2. /\ state \in {"ListBegin", "SetBegin", "ListValue", "SetValue"}
        /\ state \notin RootStates
    BY DEF SequentialBegin, SequentialValue, In, RootStates, Sequentials, BeginOf, ValueOf
  <1>3. /\ consumed \in Seq(Tokens) /\ stack \in Seq(Frames) /\ Nested(stack) /\ stack # <<>>
        /\ Top \in Frames
    BY <1>1, <1>2, BeforeHandler, HasTop DEF Top
  <1>4. PICK phrases \in [1..Len(stack) -> Phrases(consumed)] :
          /\ Chain(consumed, g, stack, phrases)
          /\ OnTop(consumed, g, state, Top, phrases[Len(stack)])
    BY <1>1, <1>2, BeforeHandler
  <1> DEFINE p == phrases[Len(stack)]
  <1>5. p \in Phrases(consumed) /\ p.begin \in Nat
    BY <1>3, HasTop DEF Phrases, Places
  <1> HIDE DEF p
  <1>6. CASE SequentialBegin(c)
    <2>1. /\ state = BeginOf[c] /\ state \in {"ListBegin", "SetBegin"}
          /\ state' = ValueOf[c] /\ state' \in {"ListValue", "SetValue"}
          /\ SequentialOf[state'] = c
      BY <1>6 DEF SequentialBegin, In, Goto, Sequentials, BeginOf, ValueOf, SequentialOf
    <2>2. PICK type \in TypesNow, size \in SizesNow :
            /\ Forward(<<BeginOf[c], type, size>>)
            /\ stack' = Append(stack, Frame(EndOf[c], type, NoType, size))
      BY <1>6 DEF SequentialBegin
    <2> DEFINE f == Frame(EndOf[c], type, NoType, size)
               token == <<BeginOf[c], type, size>>
    <2>3. type \in FieldTypes /\ size \in Nat
      BY SentTypesAreTypes
    <2>4. EndOf[c] \in States /\ EndOf[c] # "FieldEnd" /\ BeginOf[c] \in {"ListBegin", "SetBegin"}
      BY DEF Sequentials, EndOf, BeginOf, States
    <2>5. /\ f \in Frames /\ ~IsReturnFrame(f) /\ ~IsFieldFrame(f)
          /\ f.return_state = EndOf[c] /\ f.elem_type = type /\ f.remaining = size
      BY <2>3, <2>4 DEF Frame, Frames, IsReturnFrame, IsFieldFrame, NoType, FieldTypes,
                        ContainerTypes
    <2>6. token \in Tokens /\ token[1] = BeginOf[c] /\ token[2] = type /\ token[3] = size
      BY <2>3, <2>4 DEF Tokens
    <2>7. consumed' = Append(consumed, token) /\ stack' = Append(stack, f)
      BY <2>2 DEF Forward, Read
    <2> HIDE DEF f, token
    <2>8. p.type = c /\ p.begin = Here(consumed)
      BY <1>4, <2>1 DEF OnTop, p, BeginOf, ContainerTypes, Sequentials
    <2>9. /\ Grows(consumed, consumed') /\ p.begin \in DOMAIN consumed'
          /\ consumed'[p.begin] = token /\ Here(consumed') = p.begin + 1
          /\ p \in Phrases(consumed')
      BY <1>3, <1>5, <2>6, <2>7, <2>8, OneToken
    <2>10. Elements(type, 0, p.begin + 1, p.begin + 1) \in g.elements
      BY <2>6, <2>9 DEF Closed, ElementLists
    <2>11. /\ BeginsSequential(consumed', p.begin, c, f)
           /\ ElementsRemain(consumed', g, f, p.begin, f.remaining, Here(consumed'))
      BY <2>3, <2>5, <2>6, <2>9, <2>10 DEF BeginsSequential, ElementsRemain
    <2>12. OnTop(consumed', g, state', f, p)
      BY <2>1, <2>11 DEF OnTop, Ready
    <2>13. Link(consumed', g, Top, p, f, p)
      BY <2>5, <2>8 DEF Link, Sequentials
    <2>14. /\ phrases \in [1..Len(stack) -> Phrases(consumed')]
           /\ Chain(consumed', g, stack, phrases)
      BY <1>4, <2>9, ChainGrows
    <2>15. state' \in States \ RootStates
      BY <2>1 DEF States, RootStates
    <2> QED
      BY <1>3, <2>5, <2>7, <2>9, <2>12, <2>13, <2>14, <2>15, ParsedPush DEF Top, p
  <1>7. CASE SequentialValue(c)
    <2>1. state = ValueOf[c] /\ state \in {"ListValue", "SetValue"}
      BY <1>7 DEF SequentialValue, In, Sequentials, ValueOf
    <2>2. CASE LeaveContainer
      BY <1>1, <2>1, <2>2, LeaveContainerParses
    <2>3. CASE Top.remaining # 0 /\ HandleValue(Top.elem_type, ValueOf[c], OneLess)
      <3>1. Ready(consumed, g, Top, p.begin, state, Here(consumed))
        BY <1>4, <2>1 DEF OnTop, p
      <3>2. /\ OneLess \in Seq(Frames) /\ OneLess # <<>> /\ Len(OneLess) = Len(stack)
            /\ Chain(consumed, g, OneLess, phrases)
            /\ Awaits(consumed, g, OneLess[Len(OneLess)], p.begin, state, Top.elem_type,
                      Here(consumed))
        BY <1>3, <1>4, <2>1, <2>3, <3>1, OneLessAwaits
      <3> QED
        BY <1>3, <2>1, <2>3, <3>2, HandleValueParses DEF ValueReturns, p
    <2> QED
      BY <1>7, <2>2, <2>3 DEF SequentialValue
  <1> QED
    BY <1>6, <1>7

\* The ends of containers.
LEMMA ContainerEndParses ==
    ASSUME IInv, GrammarInv, NEW g, Closed(consumed', g), NEW c \in Sequentials \cup {"Map"},
           ContainerEnd(c)
    PROVE  Parsed(consumed', g, state', stack')
  <1>1. Handle
    BY DEF Handle
  <1>2. /\ state = EndOf[c] /\ state \in {"ListEnd", "SetEnd", "MapEnd"}
        /\ state \notin RootStates /\ state \in StructStates
    BY DEF ContainerEnd, In, RootStates, StructStates, Sequentials, EndOf
  <1>3. /\ consumed \in Seq(Tokens) /\ stack \in Seq(Frames) /\ Nested(stack)
        /\ stack # <<>> /\ IsReturnFrame(Top)
    BY <1>1, <1>2, BeforeHandler, TopOfStructStates
  <1>4. PICK phrases \in [1..Len(stack) -> Phrases(consumed)] :
          /\ Chain(consumed, g, stack, phrases)
          /\ OnTop(consumed, g, state, Top, phrases[Len(stack)])
    BY <1>1, <1>2, BeforeHandler
  <1> DEFINE p == phrases[Len(stack)]
             token == <<EndOf[c]>>
  <1>5. /\ consumed' = Append(consumed, token) /\ state' = Top.return_state /\ stack' = Pop
    BY DEF ContainerEnd, Forward, Read, Goto
  <1>6. token \in Tokens
    BY DEF Sequentials, EndOf, Tokens
  <1> HIDE DEF p, token
  <1>7. /\ Grows(consumed, consumed') /\ consumed' \in Seq(Tokens)
        /\ Here(consumed) \in DOMAIN consumed' /\ consumed'[Here(consumed)] = token
        /\ Here(consumed') = Here(consumed) + 1
        /\ \A i \in DOMAIN consumed : i \in DOMAIN consumed' /\ consumed'[i] = consumed[i]
    BY <1>3, <1>5, <1>6, OneToken
  <1>8. Value(p.type, p.begin, Here(consumed')) \in g.values
    <2>1. CASE c \in Sequentials
      <3>1. /\ p.type = c /\ p.begin \in DOMAIN consumed
            /\ consumed[p.begin][1] = BeginOf[c]
            /\ Elements(consumed[p.begin][2], consumed[p.begin][3], p.begin + 1,
                        Here(consumed)) \in g.elements
        BY <1>2, <1>4, <2>1 DEF OnTop, p, Sequentials, EndOf
      <3> QED
        BY <1>7, <2>1, <3>1 DEF Closed, ListsAndSets, token
    <2>2. CASE c = "Map"
      <3>1. /\ p.type = "Map" /\ p.begin \in DOMAIN consumed
            /\ consumed[p.begin][1] = "MapBegin"
            /\ Entries(consumed[p.begin][2], consumed[p.begin][3], consumed[p.begin][4],
                       p.begin + 1, Here(consumed)) \in g.entries
        BY <1>2, <1>4, <2>2 DEF OnTop, p, EndOf
      <3>2. token = <<"MapEnd">>
        BY <2>2 DEF token, EndOf
      <3> QED
        BY <1>7, <3>1, <3>2 DEF Closed, Maps
    <2> QED
      BY <2>1, <2>2
  <1>9. /\ phrases \in [1..Len(stack) -> Phrases(consumed')]
        /\ Chain(consumed', g, stack, phrases)
    BY <1>4, <1>7, ChainGrows
  <1> QED
    BY <1>3, <1>5, <1>7, <1>8, <1>9, ReturnParses DEF Top, Pop, p

\* The handlers of maps.
LEMMA MapsParse ==
    ASSUME IInv, GrammarInv, NEW g, Closed(consumed', g), MapBegin \/ MapKey \/ MapValue
    PROVE  Parsed(consumed', g, state', stack')
  <1>1. Handle
    BY DEF Handle
  <1>2. state \in {"MapBegin", "MapKey", "MapValue"} /\ state \notin RootStates
    BY DEF MapBegin, MapKey, MapValue, In, RootStates
  <1>3. /\ consumed \in Seq(Tokens) /\ stack \in Seq(Frames) /\ Nested(stack) /\ stack # <<>>
        /\ Top \in Frames
    BY <1>1, <1>2, BeforeHandler, HasTop DEF Top
  <1>4. PICK phrases \in [1..Len(stack) -> Phrases(consumed)] :
          /\ Chain(consumed, g, stack, phrases)
          /\ OnTop(consumed, g, state, Top, phrases[Len(stack)])
    BY <1>1, <1>2, BeforeHandler
  <1> DEFINE p == phrases[Len(stack)]
  <1>5. p \in Phrases(consumed) /\ p.begin \in Nat
    BY <1>3, HasTop DEF Phrases, Places
  <1> HIDE DEF p
  <1>6. CASE MapBegin
    <2>1. state = "MapBegin" /\ state' = "MapKey"
      BY <1>6 DEF MapBegin, In, Goto
    <2>2. PICK key \in TypesNow, value \in TypesNow, size \in SizesNow :
            /\ Forward(<<"MapBegin", key, value, size>>)
            /\ stack' = Append(stack, Frame("MapEnd", key, value, size))
      BY <1>6 DEF MapBegin
    <2> DEFINE f == Frame("MapEnd", key, value, size)
               token == <<"MapBegin", key, value, size>>
    <2>3. key \in FieldTypes /\ value \in FieldTypes /\ size \in Nat
      BY SentTypesAreTypes
    <2>4. /\ f \in Frames /\ ~IsReturnFrame(f) /\ ~IsFieldFrame(f)
          /\ f.return_state = "MapEnd" /\ f.elem_type = key /\ f.value_type = value
          /\ f.remaining = size
      BY <2>3 DEF Frame, Frames, States, IsReturnFrame, IsFieldFrame, NoType, FieldTypes,
                  ContainerTypes
    <2>5. /\ token \in Tokens /\ token[1] = "MapBegin" /\ token[2] = key
          /\ token[3] = value /\ token[4] = size
      BY <2>3 DEF Tokens
    <2>6. consumed' = Append(consumed, token) /\ stack' = Append(stack, f)
      BY <2>2 DEF Forward, Read
    <2> HIDE DEF f, token
    <2>7. p.type = "Map" /\ p.begin = Here(consumed)
      BY <1>4, <2>1 DEF OnTop, p, BeginOf, ContainerTypes
    <2>8. /\ Grows(consumed, consumed') /\ p.begin \in DOMAIN consumed'
          /\ consumed'[p.begin] = token /\ Here(consumed') = p.begin + 1
          /\ p \in Phrases(consumed')
      BY <1>3, <1>5, <2>5, <2>6, <2>7, OneToken
    <2>9. Entries(key, value, 0, p.begin + 1, p.begin + 1) \in g.entries
      BY <2>5, <2>8 DEF Closed, EntryLists
    <2>10. /\ BeginsMap(consumed', p.begin, f)
           /\ EntriesRemain(consumed', g, f, p.begin, f.remaining, Here(consumed'))
      BY <2>3, <2>4, <2>5, <2>8, <2>9 DEF BeginsMap, EntriesRemain
    <2>11. OnTop(consumed', g, "MapKey", f, p)
      BY <2>10 DEF OnTop, Ready
    <2>12. Link(consumed', g, Top, p, f, p)
      BY <2>4, <2>7 DEF Link, EndOf
    <2>13. /\ phrases \in [1..Len(stack) -> Phrases(consumed')]
           /\ Chain(consumed', g, stack, phrases)
      BY <1>4, <2>8, ChainGrows
    <2>14. "MapKey" \in States \ RootStates
      BY DEF States, RootStates
    <2> QED
      BY <1>3, <2>1, <2>4, <2>6, <2>8, <2>11, <2>12, <2>13, <2>14, ParsedPush DEF Top, p
  <1>7. CASE MapKey
    <2>1. state = "MapKey"
      BY <1>7 DEF MapKey, In
    <2>2. CASE LeaveContainer
      BY <1>1, <2>1, <2>2, LeaveContainerParses
    <2>3. CASE Top.remaining # 0 /\ HandleValue(Top.elem_type, "MapValue", stack)
      <3>1. Ready(consumed, g, Top, p.begin, "MapKey", Here(consumed))
        BY <1>4, <2>1 DEF OnTop, p
      <3>2. Awaits(consumed, g, Top, p.begin, "MapValue", Top.elem_type, Here(consumed))
        BY <1>3, <3>1, ReadyAwaits, HereIsAPlace
      <3> QED
        BY <1>3, <1>4, <2>3, <3>2, HandleValueParses DEF ValueReturns, Top, p
    <2> QED
      BY <1>7, <2>2, <2>3 DEF MapKey
  <1>8. CASE MapValue
    <2>1. state = "MapValue" /\ HandleValue(Top.value_type, "MapKey", OneLess)
      BY <1>8 DEF MapValue, In
    <2>2. Top.remaining # 0
      BY <2>1, TopOfValueStates DEF ValueReturns, ReturnsOnto
    <2>3. Ready(consumed, g, Top, p.begin, "MapValue", Here(consumed))
      BY <1>4, <2>1 DEF OnTop, p
    <2>4. /\ OneLess \in Seq(Frames) /\ OneLess # <<>> /\ Len(OneLess) = Len(stack)
          /\ Chain(consumed, g, OneLess, phrases)
          /\ Awaits(consumed, g, OneLess[Len(OneLess)], p.begin, "MapKey", Top.value_type,
                    Here(consumed))
      BY <1>3, <1>4, <2>2, <2>3, OneLessAwaits
    <2> QED
      BY <1>3, <2>1, <2>4, HandleValueParses DEF ValueReturns, p
  <1> QED
    BY <1>6, <1>7, <1>8

----------------------------------------------------------------------------
(* The theorems.                                                           *)

\* Only the end of the message leads to the last state.
LEMMA OnlyMessageEndEnds ==
    ASSUME IInv, Handle, ~MessageEnd
    PROVE  state' # "Done"
  <1>1. ASSUME NEW type, NEW ret, NEW below, HandleValue(type, ret, below), ret # "Done"
        PROVE  state' # "Done"
    BY <1>1 DEF HandleValue, Goto, ContainerTypes, BeginOf
  <1>2. CASE MessageBegin \/ StructBegin \/ FieldBegin \/ FieldEnd \/ MapBegin
    BY <1>2 DEF MessageBegin, StructBegin, FieldBegin, FieldEnd, MapBegin, Goto
  <1>3. CASE StructEnd
    <2>1. state \in StructStates /\ state' = Top.return_state
      BY <1>3 DEF StructEnd, In, Goto, StructStates
    <2> QED
      BY <2>1, TopOfStructStates, ReturnStates DEF ValueReturns
  <1>4. ASSUME NEW c \in Sequentials \cup {"Map"}, ContainerEnd(c)
        PROVE  state' # "Done"
    <2>1. state \in StructStates /\ state' = Top.return_state
      BY <1>4 DEF ContainerEnd, In, Goto, StructStates, Sequentials, EndOf
    <2> QED
      BY <2>1, TopOfStructStates, ReturnStates DEF ValueReturns
  <1>5. CASE FieldValue
    <2>1. state = "FieldValue" /\ HandleValue(Top.elem_type, Top.return_state, stack)
      BY <1>5 DEF FieldValue, In
    <2>2. Top.return_state = "FieldEnd"
      BY <2>1 DEF IInv, StackDiscipline, Matches, RootStates, StructStates, IsFieldFrame, Top
    <2> QED
      BY <1>1, <2>1, <2>2
  <1>6. ASSUME state \in {"ListValue", "SetValue", "MapKey"}, LeaveContainer
        PROVE  state' # "Done"
    <2>1. ReturnsOnto(Top, state) /\ state' = Top.return_state
      BY <1>6, TopOfValueStates DEF ValueReturns, LeaveContainer, Goto
    <2> QED
      BY <1>6, <2>1 DEF ReturnsOnto, IsContainerFrame, EndOf
  <1>7. ASSUME NEW c \in Sequentials, SequentialBegin(c) \/ SequentialValue(c)
        PROVE  state' # "Done"
    <2>1. ValueOf[c] # "Done"
      BY DEF Sequentials, ValueOf
    <2>2. CASE SequentialBegin(c)
      BY <2>1, <2>2 DEF SequentialBegin, Goto
    <2>3. CASE SequentialValue(c)
      <3>1. state \in {"ListValue", "SetValue", "MapKey"}
        BY <2>3 DEF SequentialValue, In, Sequentials, ValueOf
      <3> QED
        BY <1>1, <1>6, <2>1, <2>3, <3>1 DEF SequentialValue
    <2> QED
      BY <1>7, <2>2, <2>3
  <1>8. CASE MapKey \/ MapValue
    BY <1>1, <1>6, <1>8 DEF MapKey, MapValue, In
  <1> QED
    BY <1>2, <1>3, <1>4, <1>5, <1>7, <1>8 DEF Handle

\* A handler keeps what is known of the header and the end.
LEMMA HeaderAndEndKeep ==
    ASSUME IInv, GrammarInv, Handle
    PROVE  consumed' \in Seq(Tokens) /\ HeaderIsRead' /\ EndIsRead'
  <1>1. consumed \in Seq(Tokens) /\ consumed' \in Seq(Tokens)
    BY HandleReads, ReadGrows DEF GrammarInv, Grows
  <1>2. StepOK
    BY MessageAndStructKeep, FieldsKeep, SequentialsKeep, ContainerEndKeeps, MapsKeep DEF Handle
  <1>3. state' \notin {"null", "MessageBegin"}
    BY <1>2 DEF StepOK
  <1>4. EndIsRead'
    <2>1. CASE MessageEnd
      <3>1. <<"MessageEnd">> \in Tokens
        BY DEF Tokens
      <3>2. consumed' = Append(consumed, <<"MessageEnd">>)
        BY <2>1 DEF MessageEnd, Forward, Read
      <3> QED
        BY <1>1, <3>1, <3>2, OneToken DEF EndIsRead
    <2>2. CASE ~MessageEnd
      BY <2>2, OnlyMessageEndEnds DEF EndIsRead
    <2> QED
      BY <2>1, <2>2
  <1>5. HeaderIsRead'
    <2>1. CASE MessageBegin
      <3>1. consumed = <<>>
        BY <2>1 DEF MessageBegin, In, GrammarInv, HeaderIsRead
      <3>2. PICK h \in Headers :
              /\ consumed' = Append(consumed, <<"MessageBegin", h[1], h[2]>>)
              /\ msg_metadata' = [message_type |-> h[1], request_id |-> h[2]]
        BY <2>1 DEF MessageBegin, Forward, Read
      <3>3. Is(consumed', 1, <<"MessageBegin", h[1], h[2]>>)
        BY <3>1, <3>2 DEF Is
      <3> QED
        BY <1>3, <3>2, <3>3 DEF HeaderIsRead
    <2>2. CASE ~MessageBegin
      <3>1. msg_metadata' = msg_metadata /\ state \notin {"null", "MessageBegin"}
        BY <2>2 DEF Handle, MessageEnd, StructBegin, StructEnd, FieldBegin, FieldValue,
                    FieldEnd, SequentialBegin, SequentialValue, ContainerEnd, MapBegin,
                    MapKey, MapValue, HandleValue, LeaveContainer, In, Sequentials, BeginOf,
                    ValueOf, EndOf
      <3>2. \A i, t : Is(consumed, i, t) => Is(consumed', i, t)
        <4>1. Grows(consumed, consumed')
          BY <1>1, HandleReads, ReadGrows DEF Grows
        <4> QED
          BY <4>1, PlacesGrow
      <3> QED
        BY <1>3, <3>1, <3>2 DEF GrammarInv, HeaderIsRead
    <2> QED
      BY <2>1, <2>2
  <1> QED
    BY <1>1, <1>4, <1>5

\* Nothing is parsed of an empty message.
LEMMA NothingParsed ==
    ASSUME consumed' = <<>>, state' \in {"null", "MessageBegin"}
    PROVE  GrammarInv'
  <1>1. <<>> \in Seq(Tokens)
    OBVIOUS
  <1> QED
    BY <1>1 DEF GrammarInv, HeaderIsRead, EndIsRead, Parsed

\* The inductive invariant: in every state the struct of the message has been parsed by
\* the grammar as far as it has been read, whatever the peer sends.
THEOREM GrammarInvariant == Spec => []GrammarInv
  <1>1. Init => GrammarInv
    <2> SUFFICES ASSUME Init PROVE GrammarInv
      OBVIOUS
    <2>1. <<>> \in Seq(Tokens)
      OBVIOUS
    <2> QED
      BY <2>1 DEF Init, GrammarInv, HeaderIsRead, EndIsRead, Parsed
  <1>2. IInv /\ GrammarInv /\ [Next]_vars => GrammarInv'
    <2> SUFFICES ASSUME IInv, GrammarInv, [Next]_vars PROVE GrammarInv'
      OBVIOUS
    <2>1. CASE Handle
      <3>1. ASSUME NEW g, Closed(consumed', g)
            PROVE  Parsed(consumed', g, state', stack')
        BY <2>1, <3>1, MessageParses, StructParses, FieldsParse, SequentialsParse,
           ContainerEndParses, MapsParse DEF Handle
      <3> QED
        BY <2>1, <3>1, HeaderAndEndKeep DEF GrammarInv
    <2>2. CASE UNCHANGED machineVars
      BY <2>2 DEF machineVars, GrammarInv, HeaderIsRead, EndIsRead
    <2>3. CASE DecodeFrameEnd
      BY <2>3, NothingParsed DEF DecodeFrameEnd
    <2>4. CASE DecodeFrameStart
      <3>1. consumed = <<>>
        BY <2>4 DEF DecodeFrameStart, IInv, MachineOK
      <3> QED
        BY <2>4, <3>1, NothingParsed DEF DecodeFrameStart
    <2> QED
      BY <2>1, <2>2, <2>3, <2>4 DEF Next, Run, RunOutOfData, ThrowUnknownType, DecodeResume,
                                    DecodeFrameStartFails, OnError, vars
  <1> QED
    BY <1>1, <1>2, ThriftInvariant, PTL DEF Spec

\* thrift_codec.cc decodes the grammar: the tokens that decode() takes for a message are
\* exactly a message of the grammar, however deeply its values nest and however its
\* bytes are cut, and its metadata are those of its header.
THEOREM DecodesTheGrammarCorrect == Spec => DecodesTheGrammar
  <1>1. GrammarInv /\ [Next]_vars =>
          [decoded' # decoded =>
             /\ InGrammar(consumed)
             /\ metadata' = [message_type |-> MetaTypeOf[consumed[1][2]],
                             request_id |-> consumed[1][3]]]_vars
    <2> SUFFICES ASSUME GrammarInv, Next, decoded' # decoded
                 PROVE  /\ InGrammar(consumed)
                        /\ metadata' = [message_type |-> MetaTypeOf[consumed[1][2]],
                                        request_id |-> consumed[1][3]]
      OBVIOUS
    <2>1. DecodeFrameEnd
      BY DEF Next, Run, Handle, MessageBegin, MessageEnd, StructBegin, StructEnd, FieldBegin,
             FieldValue, FieldEnd, SequentialBegin, SequentialValue, ContainerEnd, MapBegin,
             MapKey, MapValue, HandleValue, LeaveContainer, Goto, RunOutOfData,
             ThrowUnknownType, DecodeResume, DecodeFrameStart, DecodeFrameStartFails,
             OnError, codecVars
    <2>2. /\ state = "Done"
          /\ metadata' = [message_type |-> MetaTypeOf[msg_metadata.message_type],
                          request_id |-> msg_metadata.request_id]
      BY <2>1 DEF DecodeFrameEnd, In
    <2>3. /\ 1 \in DOMAIN consumed
          /\ consumed[1] = <<"MessageBegin", msg_metadata.message_type,
                             msg_metadata.request_id>>
          /\ Is(consumed, Len(consumed), <<"MessageEnd">>)
          /\ \A g : Closed(consumed, g) => Value("Struct", 2, Len(consumed)) \in g.values
      BY <2>2 DEF GrammarInv, HeaderIsRead, EndIsRead, Parsed, Is
    <2> QED
      BY <2>2, <2>3 DEF InGrammar
  <1> QED
    BY <1>1, GrammarInvariant, PTL DEF Spec, DecodesTheGrammar
=============================================================================
