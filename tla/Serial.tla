------------------------------- MODULE Serial --------------------------------
(***************************************************************************)
(* What the contents of packets are made of (serial.c), and the contents   *)
(* of the structures that several processes exchange (struct.c, yfile.c).  *)
(*                                                                         *)
(* A byte is a number below Radix, a string the sequence of its bytes      *)
(* without the final 0, NULL is Null.  A format is a sequence of letters.  *)
(***************************************************************************)
EXTENDS Integers, Sequences, SequencesExt

CONSTANTS
  Radix,      \* values of a byte
  Width,      \* Width[c]: the bytes of an integer of letter c
  NullString, \* "__NULL__", which stands for NULL
  Colon,      \* the byte of ':'
  Null

Byte == 0 .. Radix - 1

\* packi16, packi32, packi64, and the one byte of 'c'.
PackInt(v, w) == [k \in 1 .. w |-> (v \div Radix ^ (w - k)) % Radix]
UnpackUnsigned(bytes) == FoldLeft(LAMBDA v, b : v * Radix + b, 0, bytes)
UnpackInt_M(bytes) == UnpackUnsigned(bytes)
\* unpacki16, unpacki32, unpacki64: change unsigned numbers to signed.
UnpackInt(bytes) ==
  LET v == UnpackUnsigned(bytes) full == Radix ^ Len(bytes)
  IN  IF v <= full \div 2 - 1 THEN v ELSE v - full

PackString(s) == (IF s = Null THEN NullString ELSE s) \o <<0>>
StringIn(bytes) == SubSeq(bytes, 1, SelectInSeq(bytes, LAMBDA b : b = 0) - 1)

PackField(c, v) == IF c = "s" THEN PackString(v) ELSE PackInt(v, Width[c])

\* add_variadic: serial_add, serial_pack.
Pack(format, values) == FlattenSeq([k \in DOMAIN format |-> PackField(format[k], values[k])])

\* remove_variadic: serial_remove, serial_unpack; what is left is moved to the
\* beginning, and nothing is taken from an empty content.
TakeField(sofar, c) ==
  LET string == StringIn(sofar.rest)
      used == IF c = "s" THEN Len(string) + 1 ELSE Width[c]
      value == IF c # "s" THEN UnpackInt(SubSeq(sofar.rest, 1, used))
               ELSE IF string = NullString THEN Null ELSE string
  IN  [values |-> Append(sofar.values, value),
       rest |-> SubSeq(sofar.rest, used + 1, Len(sofar.rest))]
Take(format, bytes) ==
  IF bytes = <<>> THEN [values |-> <<>>, rest |-> <<>>]
  ELSE FoldLeft(TakeField, [values |-> <<>>, rest |-> bytes], format)
Unpack(format, bytes) == Take(format, bytes).values
-----------------------------------------------------------------------------
(* The exchanged structures: some values, and a list of items.              *)

PackItems(format, items) == FlattenSeq([k \in DOMAIN items |-> Pack(format, items[k])])
\* So many items, or all that there are.
TakeSome(format, bytes, count) ==
  LET take[n \in Nat, rest \in Seq(Byte)] ==
        IF n = 0 THEN <<>>
        ELSE LET item == Take(format, rest) IN <<item.values>> \o take[n - 1, item.rest]
  IN  take[count, bytes]
TakeAll(format, bytes) ==
  LET take[rest \in Seq(Byte)] ==
        IF rest = <<>> THEN <<>>
        ELSE LET item == Take(format, rest) IN <<item.values>> \o take[item.rest]
  IN  take[bytes]

Joined_M(names) == FlattenSeq(names)
\* The names of a local reduction, each followed by a colon; string_split
\* leaves empty ones out.
Joined(names) == FlattenSeq([k \in DOMAIN names |-> Append(names[k], Colon)])
Split(string) ==
  LET split[s \in Seq(Byte)] ==
        IF s = <<>> THEN <<>>
        ELSE LET colon == SelectInSeq(s, LAMBDA b : b = Colon)
                 end == IF colon = 0 THEN Len(s) ELSE colon - 1
                 rest == split[SubSeq(s, end + 2, Len(s))]
             IN  IF end = 0 THEN rest ELSE <<SubSeq(s, 1, end)>> \o rest
  IN  split[string]

Plan   == <<"s", "s", "s", "i", "i", "s">>      \* tEtapaTransformacion
Local  == <<"s", "s", "s", "s", "s">>           \* tEtapaReduccionLocal
Global == <<"s", "s", "s", "s", "s", "s">>      \* tEtapaReduccionGlobal
Store  == <<"s", "s", "s", "s">>                \* tAlmacenadoFinal
File   == <<"s", "i", "i">>                     \* t_yfile, and a t_block of it
Block  == <<"i", "i", "i", "s", "i", "s">>

\* list_transformacion_pack, etapa_rl_pack, list_reduccionGlobal_pack,
\* etapa_af_pack, yfile_pack, and the content of a response.
Content(m) ==
  CASE m.is = "plan"     -> Pack(<<"i">>, <<Len(m.items)>>) \o PackItems(Plan, m.items)
    [] m.is = "local"    -> Pack(Local, [m.values EXCEPT ![4] = Joined(m.items)])
    [] m.is = "global"   -> Pack(<<"i">>, <<Len(m.items)>>) \o PackItems(Global, m.items)
    [] m.is = "store"    -> Pack(Store, m.values)
    [] m.is = "file"     -> Pack(File, m.values) \o PackItems(Block, m.items)
    [] m.is = "response" -> Pack(<<"i">>, m.values)
    [] m.is = "bytes"    -> m.values
    [] m.is = "ping"     -> <<>>

Message(is, values, items) == [is |-> is, values |-> values, items |-> items]
Counted(is, format, bytes) ==
  LET count == Take(<<"i">>, bytes)
  IN  Message(is, <<>>, TakeSome(format, count.rest, count.values[1]))
\* The unpacking functions of the same.
Parsed(is, bytes) ==
  CASE is = "plan"     -> Counted(is, Plan, bytes)
    [] is = "local"    -> LET values == Unpack(Local, bytes)
                          IN  Message(is, [values EXCEPT ![4] = <<>>], Split(values[4]))
    [] is = "global"   -> Counted(is, Global, bytes)
    [] is = "store"    -> Message(is, Unpack(Store, bytes), <<>>)
    [] is = "file"     -> LET head == Take(File, bytes)
                          IN  Message(is, head.values, TakeAll(Block, head.rest))
    [] is = "response" -> Message(is, Unpack(<<"i">>, bytes), <<>>)
    [] is = "bytes"    -> Message(is, bytes, <<>>)
    [] is = "ping"     -> Message(is, <<>>, <<>>)
=============================================================================
