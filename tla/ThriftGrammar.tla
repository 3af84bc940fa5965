--------------------------- MODULE ThriftGrammar ---------------------------
(***************************************************************************)
(* What a Thrift message is: the grammar of its tokens, independent of the *)
(* stack and the states with which thrift_codec.cc decodes it.             *)
(*                                                                         *)
(* A sequence of tokens has phrases: a value, fields that follow each      *)
(* other, elements of a list or set, entries of a map.  The productions    *)
(* say which phrases make up larger ones.  A phrase is derived from the    *)
(* grammar if it is in every set that is closed under the productions.     *)
(***************************************************************************)
EXTENDS ThriftCodec

\* What messages consist of.
Tokens ==
    {<<"Value">>, <<"StructBegin">>, <<"StructEnd">>, StopField, <<"FieldEnd">>,
     <<"ListEnd">>, <<"SetEnd">>, <<"MapEnd">>, <<"MessageEnd">>}
    \cup ({"MessageBegin"} \X MessageTypes \X Nat)
    \cup ({"FieldBegin"} \X FieldTypes)
    \cup ({"ListBegin", "SetBegin"} \X FieldTypes \X Nat)
    \cup ({"MapBegin"} \X FieldTypes \X FieldTypes \X Nat)

\* The phrases: each begins at the place `from` and ends before the place `to`.
Value(type, from, to) == [type |-> type, from |-> from, to |-> to]
Fields(from, to) == [from |-> from, to |-> to]
Elements(type, count, from, to) ==
    [type |-> type, count |-> count, from |-> from, to |-> to]
Entries(key, value, count, from, to) ==
    [key |-> key, value |-> value, count |-> count, from |-> from, to |-> to]

\* Token t is at place i of s.
Is(s, i, t) == i \in DOMAIN s /\ s[i] = t

Places(s) == 1..Len(s) + 1

----------------------------------------------------------------------------
(* The productions, for a set of phrases g of s: its values, fields,       *)
(* elements and entries.                                                   *)

Scalars(s, g) ==
    \A i \in DOMAIN s : s[i] = <<"Value">> => Value("Scalar", i, i + 1) \in g.values

Structs(s, g) ==
    \A i, j \in DOMAIN s :
        /\ s[i] = <<"StructBegin">> /\ Fields(i + 1, j) \in g.fields
        /\ s[j] = StopField /\ Is(s, j + 1, <<"StructEnd">>)
        => Value("Struct", i, j + 2) \in g.values

\* Nothing, or fields and another one.
FieldLists(s, g) ==
    /\ \A i \in DOMAIN s : s[i] = <<"StructBegin">> => Fields(i + 1, i + 1) \in g.fields
    /\ \A f \in g.fields, type \in FieldTypes :
          Is(s, f.to, <<"FieldBegin", type>>) =>
            \A k \in DOMAIN s :
               Value(type, f.to + 1, k) \in g.values /\ s[k] = <<"FieldEnd">>
               => Fields(f.from, k + 1) \in g.fields

\* A list or set has as many elements as its first token says.
ListsAndSets(s, g) ==
    \A c \in Sequentials, i, j \in DOMAIN s :
        /\ s[i][1] = BeginOf[c] /\ Elements(s[i][2], s[i][3], i + 1, j) \in g.elements
        /\ s[j] = <<EndOf[c]>>
        => Value(c, i, j + 1) \in g.values

ElementLists(s, g) ==
    /\ \A c \in Sequentials, i \in DOMAIN s :
          s[i][1] = BeginOf[c] => Elements(s[i][2], 0, i + 1, i + 1) \in g.elements
    /\ \A e \in g.elements, j \in Places(s) :
          Value(e.type, e.to, j) \in g.values
          => Elements(e.type, e.count + 1, e.from, j) \in g.elements

\* A map has as many entries as its first token says.
Maps(s, g) ==
    \A i, j \in DOMAIN s :
        /\ s[i][1] = "MapBegin"
        /\ Entries(s[i][2], s[i][3], s[i][4], i + 1, j) \in g.entries
        /\ s[j] = <<"MapEnd">>
        => Value("Map", i, j + 1) \in g.values

EntryLists(s, g) ==
    /\ \A i \in DOMAIN s :
          s[i][1] = "MapBegin" => Entries(s[i][2], s[i][3], 0, i + 1, i + 1) \in g.entries
    /\ \A e \in g.entries, j \in Places(s) :
          Value(e.key, e.to, j) \in g.values =>
            \A k \in Places(s) :
               Value(e.value, j, k) \in g.values
               => Entries(e.key, e.value, e.count + 1, e.from, k) \in g.entries

Closed(s, g) ==
    /\ Scalars(s, g)
    /\ Structs(s, g) /\ FieldLists(s, g)
    /\ ListsAndSets(s, g) /\ ElementLists(s, g)
    /\ Maps(s, g) /\ EntryLists(s, g)

\* A message is a header, a struct and an end.
InGrammar(s) ==
    /\ 1 \in DOMAIN s /\ s[1][1] = "MessageBegin"
    /\ Is(s, Len(s), <<"MessageEnd">>)
    /\ \A g : Closed(s, g) => Value("Struct", 2, Len(s)) \in g.values

\* What decode() takes for a message is exactly one message of the grammar, and its
\* metadata are those of its header.
DecodesTheGrammar ==
    [][decoded' # decoded =>
         /\ InGrammar(consumed)
         /\ metadata' = [message_type |-> MetaTypeOf[consumed[1][2]],
                         request_id |-> consumed[1][3]]]_vars
=============================================================================
