------------------------------ MODULE Protobuf ------------------------------
(***************************************************************************)
(* The generated proto3 code: what Clear, ByteSizeLong, _InternalSerialize,*)
(* _InternalParse and MergeFrom of a message class do with its fields.     *)
(* A message is a function from its fields, and "unknown", to values; an   *)
(* optional submessage is a sequence of at most one message.  The wire is  *)
(* a sequence of records [number, type, value].                            *)
(*                                                                         *)
(* A sender serializes two messages one after the other (as a sender that  *)
(* knows a later schema may, with a field the reader does not know); a     *)
(* reader, whose own schema may lack the last field, parses them field by  *)
(* field into one message, and passes on what it read to a reader that     *)
(* knows every field.                                                      *)
(***************************************************************************)
EXTENDS Naturals, Sequences, SequencesExt, FiniteSetsExt, ProtobufMessages

CONSTANTS
    PbMessages  \* name -> what its class does: see Message of ProtobufMessages

VARIABLES
    pbMessage,  \* the message being sent
    pbFirst, pbSecond,  \* what the sender serializes
    pbOld,      \* TRUE when the first reader's schema lacks the last field
    pbWire,     \* the records not yet parsed
    pbGot,      \* what the reader has parsed so far
    pbPhase

pbVars == <<pbMessage, pbFirst, pbSecond, pbOld, pbWire, pbGot, pbPhase>>

Fields(m) == PbMessages[m].fields

DefaultOf(kind) ==
    CASE kind.of = "text" -> ""
      [] kind.of \in {"number", "real"} -> 0
      [] kind.of = "flag" -> FALSE
      [] OTHER -> <<>>

\* SharedCtor and Clear: every field at its default, no unknown fields.
PbClear(m) == [f \in DOMAIN Fields(m) \cup {"unknown"} |->
                  IF f = "unknown" THEN <<>> ELSE DefaultOf(Fields(m)[f])]

\* The values of the records that a field is written as: none for a default, one for each
\* element of a repeated field.
Elements(kind, v) ==
    CASE kind.of \in {"strings", "one", "many"} -> v
      [] v = DefaultOf(kind) -> <<>>
      [] OTHER -> <<v>>

IsMessage(kind) == kind.of \in {"one", "many"}

\* _InternalSerialize: the fields in the order of their numbers, then the unknown fields as they
\* were read.
RECURSIVE Serialize(_, _)
Serialize(m, x) ==
    LET tags == PbMessages[m].write
        record(i, v) == [number |-> i, type |-> tags[i].type, value |-> v]
        field(i) == LET kind == Fields(m)[tags[i].field]
                        vs == Elements(kind, x[tags[i].field])
                    IN [k \in DOMAIN vs |->
                           record(i, IF IsMessage(kind) THEN Serialize(kind.message, vs[k]) ELSE vs[k])]
    IN FlattenSeq([i \in DOMAIN tags |-> field(i)]) \o x.unknown

RECURSIVE ByteSize(_, _)
MutantByteSize(m, x) ==
    LET size(f) == LET kind == Fields(m)[f]
                       vs == Elements(kind, x[f])
                   IN  Len(vs) + IF IsMessage(kind)
                                 THEN FoldLeft(LAMBDA n, y : n + ByteSize(kind.message, y), 0, vs)
                                 ELSE 0
    IN MapThenSumSet(size, PbMessages[m].size)

\* ByteSizeLong, in records: of the message, its submessages and its unknown fields.
ByteSize(m, x) ==
    LET size(f) == LET kind == Fields(m)[f]
                       vs == Elements(kind, x[f])
                   IN  Len(vs) + IF IsMessage(kind)
                                 THEN FoldLeft(LAMBDA n, y : n + ByteSize(kind.message, y), 0, vs)
                                 ELSE 0
    IN MapThenSumSet(size, PbMessages[m].size) + Len(x.unknown)

\* The records on a wire, those within submessages included.
RECURSIVE Records(_, _)
Records(m, wire) ==
    LET nested(r) == r.number \in DOMAIN PbMessages[m].write
                     /\ IsMessage(Fields(m)[PbMessages[m].write[r.number].field])
        inner(r) == IF nested(r)
                    THEN Records(Fields(m)[PbMessages[m].write[r.number].field].message, r.value) ELSE 0
    IN FoldLeft(LAMBDA n, r : n + 1 + inner(r), 0, wire)

MutantPutField(kind, old, v) == CASE kind.of = "strings" -> Append(old, v)
                             [] kind.of \in {"one", "many"} -> <<v>>
                             [] OTHER -> v

\* What a value that was read does to a field: a scalar overwrites, an element of a repeated
\* field is appended, a submessage takes the place of the one it was merged into.
PutField(kind, old, v) == CASE kind.of \in {"strings", "many"} -> Append(old, v)
                       [] kind.of = "one" -> <<v>>
                       [] OTHER -> v

\* The submessage that a field's record is parsed into.
Into(kind, old) == IF kind.of = "one" /\ old # <<>> THEN old[1] ELSE PbClear(kind.message)

\* One turn of _InternalParse's loop, for a reader that knows the fields with the numbers of
\* known.  A record whose number or wire type the switch does not expect is kept among the
\* unknown fields.
RECURSIVE ParseField(_, _, _, _)
ParseField(m, known, x, r) ==
    LET tags == PbMessages[m].parse
        parse(n, y, wire) == FoldLeft(LAMBDA z, s : ParseField(n, DOMAIN PbMessages[n].parse, z, s), y, wire)
    IN IF r.number \notin known \/ r.type # tags[r.number].type
       THEN [x EXCEPT !.unknown = Append(@, r)]
       ELSE LET f == tags[r.number].field
                kind == Fields(m)[f]
                v == IF IsMessage(kind) THEN parse(kind.message, Into(kind, x[f]), r.value) ELSE r.value
            IN [x EXCEPT ![f] = PutField(kind, @, v)]

\* MergeFrom: a field of y that is not at its default replaces x's, a repeated field is appended,
\* a submessage merged.
RECURSIVE MergeFrom(_, _, _)
MergeFrom(m, x, y) ==
    LET merged(f) ==
          LET kind == Fields(m)[f] IN
          CASE kind.of \in {"strings", "many"} -> x[f] \o y[f]
            [] kind.of = "one" -> IF x[f] = <<>> \/ y[f] = <<>> THEN x[f] \o y[f]
                                  ELSE <<MergeFrom(kind.message, x[f][1], y[f][1])>>
            [] OTHER -> IF y[f] = DefaultOf(kind) THEN x[f] ELSE y[f]
    IN [f \in DOMAIN x |-> CASE f = "unknown" -> x[f] \o y[f]
                             [] f \in PbMessages[m].merge -> merged(f)
                             [] OTHER -> x[f]]

-----------------------------------------------------------------------------
(* The messages tried: every field at its default or set, and a message with *)
(* every field set.                                                          *)

RECURSIVE FullMessage(_)
SetField(kind) ==
    CASE kind.of = "text" -> "t"
      [] kind.of \in {"number", "real"} -> 1
      [] kind.of = "flag" -> TRUE
      [] kind.of = "strings" -> <<"s", "t">>
      [] kind.of = "one" -> <<FullMessage(kind.message)>>
      [] OTHER -> <<FullMessage(kind.message), PbClear(kind.message)>>
FullMessage(m) == [f \in DOMAIN PbClear(m) |->
                      IF f = "unknown" THEN <<>> ELSE SetField(Fields(m)[f])]

PartsOf(m) ==
    {[f \in DOMAIN PbClear(m) |-> IF f \in set THEN FullMessage(m)[f] ELSE PbClear(m)[f]] :
        set \in SUBSET DOMAIN Fields(m)}

Later(m) == [number |-> Len(PbMessages[m].write) + 1, type |-> 2, value |-> "later"]

-----------------------------------------------------------------------------

PbInit ==
    /\ pbMessage = "" /\ pbFirst = <<>> /\ pbSecond = <<>> /\ pbOld = FALSE
    /\ pbWire = <<>> /\ pbGot = <<>> /\ pbPhase = "idle"

\* SerializeToArray of two messages; the second sender may know a later field.
PbSend ==
    /\ pbPhase = "idle" /\ pbPhase' = "read"
    /\ \E m \in DOMAIN PbMessages, old, later \in BOOLEAN :
          \E x \in {PbClear(m), FullMessage(m)}, y \in PartsOf(m) :
             LET second == [y EXCEPT !.unknown = IF later THEN <<Later(m)>> ELSE <<>>]
             IN /\ old => DOMAIN Fields(m) # {}
                /\ pbMessage' = m /\ pbOld' = old
                /\ pbFirst' = x /\ pbSecond' = second
                /\ pbWire' = Serialize(m, x) \o Serialize(m, second)
                /\ pbGot' = PbClear(m)

KnownFields == LET all == DOMAIN PbMessages[pbMessage].parse
         IN  IF pbPhase = "read" /\ pbOld THEN all \ {Cardinality(all)} ELSE all

\* _InternalParse, one record
PbParse ==
    /\ pbWire # <<>>
    /\ pbGot' = ParseField(pbMessage, KnownFields, pbGot, Head(pbWire))
    /\ pbWire' = Tail(pbWire)
    /\ UNCHANGED <<pbMessage, pbFirst, pbSecond, pbOld, pbPhase>>

MutantPbForward ==
    /\ pbPhase = "read" /\ pbWire = <<>> /\ pbPhase' = "forward"
    /\ pbWire' = Serialize(pbMessage, [pbGot EXCEPT !.unknown = <<>>])
    /\ pbGot' = PbClear(pbMessage)
    /\ UNCHANGED <<pbMessage, pbFirst, pbSecond, pbOld>>

\* The reader serializes what it read, with the unknown fields, for one that knows every field.
PbForward ==
    /\ pbPhase = "read" /\ pbWire = <<>> /\ pbPhase' = "forward"
    /\ pbWire' = Serialize(pbMessage, pbGot)
    /\ pbGot' = PbClear(pbMessage)
    /\ UNCHANGED <<pbMessage, pbFirst, pbSecond, pbOld>>

PbRest ==
    /\ pbPhase = "forward" /\ pbWire = <<>>
    /\ pbMessage' = "" /\ pbFirst' = <<>> /\ pbSecond' = <<>> /\ pbOld' = FALSE
    /\ pbGot' = <<>> /\ pbPhase' = "idle" /\ UNCHANGED pbWire

PbNext == PbSend \/ PbParse \/ PbForward \/ PbRest

-----------------------------------------------------------------------------
(* Properties *)

\* What is read has the fields of its class, and the wire is made of records.
PbTypeOK ==
    /\ pbPhase \in {"idle", "read", "forward"}
    /\ pbOld \in BOOLEAN
    /\ pbPhase # "idle" =>
          /\ pbMessage \in DOMAIN PbMessages
          /\ DOMAIN pbGot = DOMAIN Fields(pbMessage) \cup {"unknown"}
          /\ \A i \in DOMAIN pbWire : DOMAIN pbWire[i] = {"number", "type", "value"}

\* Parsing two serialized messages one after the other into one message gives what MergeFrom
\* gives for the two: the switch of the parser, the order and omissions of the serializer and
\* MergeFrom agree on every field of every message.  With a first message at its defaults this
\* is the round trip of the second.
ParseIsMerge ==
    pbPhase = "read" /\ pbWire = <<>> /\ ~pbOld
       => pbGot = MergeFrom(pbMessage, pbFirst, pbSecond)

\* A reader whose schema lacks a field passes the field on: what a later reader gets from it is
\* what it would have got from the sender.
ForwardKeepsFields ==
    pbPhase = "forward" /\ pbWire = <<>>
       => pbGot = MergeFrom(pbMessage, pbFirst, pbSecond)

\* The buffer a message is written to has the size it needs: ByteSizeLong counts exactly what
\* _InternalSerialize writes, in submessages and unknown fields also.
SizeIsExact ==
    pbPhase = "read" /\ pbGot = PbClear(pbMessage)
       => Records(pbMessage, pbWire) = ByteSize(pbMessage, pbFirst) + ByteSize(pbMessage, pbSecond)

\* The three together: what is written is what the other end reads, in one piece, in several,
\* or by way of somebody who knows fewer fields.
WireKeepsMeaning == ParseIsMerge /\ ForwardKeepsFields /\ SizeIsExact
=============================================================================
