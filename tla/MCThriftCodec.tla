--------------------------- MODULE MCThriftCodec ---------------------------
(***************************************************************************)
(* ThriftCodec checked against the grammar of Thrift messages.  The        *)
(* grammar is a recursive descent over the tokens of a message, where the  *)
(* code keeps an explicit stack.  The phrases that the descent finds are   *)
(* closed under the productions of ThriftGrammar, so what is a message     *)
(* there is one here.                                                      *)
(***************************************************************************)
EXTENDS ThriftGrammar

\* What the peer sends in the runs: two headers that differ in type and sequence id
\* where values nest, all of them where only the header matters.
TwoHeaders == {<<"Call", 1>>, <<"Exception", 2>>}
AllHeaders == MessageTypes \X {1, 2}

\* The token at i, or nothing when the tokens end there (or i is no place).
At(s, i) == IF i \in DOMAIN s THEN s[i] ELSE <<"end">>

\* The place after token t at i; 0 if there is another token.
Skip(s, i, t) == IF At(s, i) = t THEN i + 1 ELSE 0

RECURSIVE AfterValue(_, _, _), AfterFields(_, _), AfterElements(_, _, _, _)

\* The place after the value of the given type that begins at i; 0 if none does.
AfterValue(s, i, type) ==
    CASE type = "Scalar" -> Skip(s, i, <<"Value">>)
      [] type = "Struct" ->
            IF At(s, i) = <<"StructBegin">> THEN AfterFields(s, i + 1) ELSE 0
      [] type \in Sequentials /\ At(s, i)[1] = BeginOf[type] ->
            Skip(s, AfterElements(s, i + 1, <<s[i][2]>>, s[i][3]), <<EndOf[type]>>)
      [] type = "Map" /\ At(s, i)[1] = "MapBegin" ->
            Skip(s, AfterElements(s, i + 1, <<s[i][2], s[i][3]>>, s[i][4]), <<"MapEnd">>)
      [] OTHER -> 0

\* The place after the fields of a struct and its end.
AfterFields(s, i) ==
    CASE At(s, i) = StopField -> Skip(s, i + 1, <<"StructEnd">>)
      [] At(s, i)[1] = "FieldBegin" /\ At(s, i) # StopField ->
            LET end == Skip(s, AfterValue(s, i + 1, s[i][2]), <<"FieldEnd">>)
            IN  IF end = 0 THEN 0 ELSE AfterFields(s, end)
      [] OTHER -> 0

\* The place after n times the values of the given types.
AfterElements(s, i, types, n) ==
    IF n = 0 \/ i = 0 THEN i
    ELSE LET first == AfterValue(s, i, types[1])
             last  == IF Len(types) = 1 \/ first = 0 THEN first
                      ELSE AfterValue(s, first, types[2])
         IN  AfterElements(s, last, types, n - 1)

\* A message: its header, a struct, and its end, and nothing behind that.
IsMessage(s) ==
    /\ At(s, 1)[1] = "MessageBegin"
    /\ LET end == AfterValue(s, 2, "Struct")
       IN  end = Len(s) /\ At(s, end) = <<"MessageEnd">>

RECURSIVE FieldEnds(_, _), ElementEnds(_, _, _, _)

\* The places before and after fields that follow each other from i on.
FieldEnds(s, i) ==
    LET end == IF At(s, i)[1] = "FieldBegin"
               THEN Skip(s, AfterValue(s, i + 1, s[i][2]), <<"FieldEnd">>) ELSE 0
    IN  {i} \cup IF end = 0 THEN {} ELSE FieldEnds(s, end)

\* The same of values of the given types, with their number; there are n before i.
ElementEnds(s, i, types, n) ==
    LET end == AfterElements(s, i, types, 1)
    IN  {<<n, i>>} \cup IF end = 0 THEN {} ELSE ElementEnds(s, end, types, n + 1)

\* The phrases of s.
Chart(s) ==
    [values |-> {v \in {Value(t, i, AfterValue(s, i, t)) : t \in FieldTypes, i \in DOMAIN s} :
                    v.to # 0},
     fields |-> UNION {{Fields(i + 1, j) : j \in FieldEnds(s, i + 1)} :
                    i \in {i \in DOMAIN s : s[i][1] = "StructBegin"}},
     elements |-> UNION {{Elements(s[i][2], e[1], i + 1, e[2]) :
                             e \in ElementEnds(s, i + 1, <<s[i][2]>>, 0)} :
                    i \in {i \in DOMAIN s : s[i][1] \in {"ListBegin", "SetBegin"}}},
     entries |-> UNION {{Entries(s[i][2], s[i][3], e[1], i + 1, e[2]) :
                            e \in ElementEnds(s, i + 1, <<s[i][2], s[i][3]>>, 0)} :
                    i \in {i \in DOMAIN s : s[i][1] = "MapBegin"}}]

\* The state machine of thrift_codec.cc decodes the grammar, however the bytes are
\* cut: what decode() takes for a message is exactly one message, and its metadata
\* are those of its header.  Its phrases are closed under ThriftGrammar's productions.
DecodesMessages ==
    [][decoded' # decoded =>
         /\ IsMessage(consumed) /\ Closed(consumed, Chart(consumed))
         /\ metadata' = [message_type |-> MetaTypeOf[consumed[1][2]],
                         request_id |-> consumed[1][3]]]_vars

\* thrift_codec.cc:137-138 says that onError makes up the method and the sequence id
\* for exceptions that occur before the message name is known.  So a reply to a
\* request that was decoded bears the request's id.
ErrorReplyHasSequenceId ==
    [][error_reply' # error_reply => error_reply'[1][3] = metadata.request_id]_vars
=============================================================================
