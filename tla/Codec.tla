------------------------------- MODULE Codec -------------------------------
(***************************************************************************)
(* How the window store writes a row image and the list of its columns,    *)
(* and what it makes of a record that is not what it wrote: one cut short, *)
(* one with more behind it, one that was altered on disk, one of a newer   *)
(* build (internal/store/codec.go).                                        *)
(*                                                                         *)
(* Bytes and words are scaled down together: a byte has 2 * Half values    *)
(* (Half is 128 in the code), a number takes up to Digits bytes (10), and  *)
(* 2 * Half^(Digits - 1) values fit a word (2^64): its last digit is a     *)
(* single bit here as there.                                               *)
(***************************************************************************)
EXTENDS Integers, Sequences

CONSTANTS Half, Digits,
          Second,      \* nanoseconds to a second
          Values,      \* the values rows are made of
          Columns,     \* the columns tables are made of
          MaxValues,   \* bound on the values of a row, the columns of a table
          MaxAlters    \* bound on the bytes altered

VARIABLES
    content,  \* the row or the columns that were written
    record,   \* the record in the store
    fate,     \* none, refused, written, cut, extended, altered or newer
    alters    \* the bytes altered so far

vars == <<content, record, fate, alters>>

Byte == 0 .. 2 * Half - 1
CodecVersion == 1

\* How many numbers have up to n digits.
Numbers[n \in Nat] == IF n < 2 THEN 2 ELSE Half * Numbers[n - 1]

Word == Numbers[Digits]

Unsigned64 == 0 .. Word - 1
Signed64 == -(Word \div 2) .. (Word \div 2) - 1

\* A text, a slice of bytes: its length fits a word.
Texts == {s \in Seq(Byte) : Len(s) \in Unsigned64}

----------------------------------------------------------------------------
(* What a number in the log may look like, and what reaches a script.      *)

\* Characters of a number, among the bytes.
Digit == {0, 1}
Sign == {2}
Dot == 3
Exponent == 4

AllDigits(s) == s # <<>> /\ \A i \in DOMAIN s : s[i] \in Digit
Unsigned(s) == IF s # <<>> /\ s[1] \in Sign THEN Tail(s) ELSE s

Decimal(s) ==
    \/ AllDigits(s)
    \/ \E i \in DOMAIN s : /\ s[i] = Dot
                           /\ AllDigits(SubSeq(s, 1, i - 1))
                           /\ AllDigits(SubSeq(s, i + 1, Len(s)))

ValidRaw(s) ==
    LET number == Unsigned(s)
    IN  \/ Decimal(number)
        \/ \E i \in DOMAIN number :
              /\ number[i] = Exponent
              /\ Decimal(SubSeq(number, 1, i - 1))
              /\ AllDigits(Unsigned(SubSeq(number, i + 1, Len(number))))

\* A value: its Go type and what it holds, as a sequence.  A time holds its
\* seconds, its nanoseconds and the zone of who read it, 0 for UTC.
Value(type, holds) == [type |-> type, holds |-> holds]

GoValues ==
         [type : {"nil"}, holds : {<<>>}]
    \cup [type : {"int8", "int64"}, holds : {<<v>> : v \in Signed64}]
    \cup [type : {"uint8", "uint64"}, holds : {<<v>> : v \in Unsigned64}]
    \cup [type : {"float32"}, holds : {<<a>> : a \in Byte}]
    \cup [type : {"float64"}, holds : {<<a, b>> : a, b \in Byte}]
    \cup [type : {"bool"}, holds : {<<0>>, <<1>>}]
    \cup [type : {"string", "bytes", "raw"}, holds : Texts]
    \cup [type : {"time"}, holds : {<<sec, nsec, zone>> :
            sec \in Signed64, nsec \in 0 .. Second - 1, zone \in {0, 1}}]
    \cup [type : {"json"}, holds : {<<>>}]  \* any other type

GoColumns == [name : Texts, key : BOOLEAN, readOnly : BOOLEAN]

ASSUME CodecAssumption ==
    /\ {Half, Digits, Second, MaxValues, MaxAlters} \subseteq Nat
    /\ Half > 5 /\ Digits > 1
    /\ Second \in 1 .. Word  \* the nanoseconds of a second fit a word
    /\ MaxValues < Word       \* and so does the length of a slice

ASSUME ValuesAssumption == Values \subseteq GoValues /\ Columns \subseteq GoColumns

Unrendered == <<"none", <<>>>>

\* literal: what the statement has for a value, none if it can have nothing.
Literal(x) ==
    CASE x.type \in {"int8", "int64", "uint8", "uint64", "bool"} -> <<"integer", x.holds>>
      [] x.type \in {"string", "bytes"} -> <<"quoted", x.holds>>
      [] x.type = "time" -> <<"quoted time", SubSeq(x.holds, 1, 2)>>
      [] x.type = "raw" /\ ValidRaw(x.holds) -> <<"unquoted", x.holds>>
      [] x.type \in {"nil", "float32", "float64"} -> <<x.type, x.holds>>
      [] OTHER -> Unrendered

\* A value without the zone of who read it.
Instant(x) == IF x.type = "time" THEN SubSeq(x.holds, 1, 2) ELSE x.holds

----------------------------------------------------------------------------
(* Encoding.                                                               *)

\* binary.AppendUvarint and AppendVarint.
Uvarint[v \in Unsigned64] ==
    IF v < Half THEN <<v>> ELSE <<(v % Half) + Half>> \o Uvarint[v \div Half]

Varint(v) == Uvarint[IF v < 0 THEN -2 * v - 1 ELSE 2 * v]

\* Widths of integers are not kept, those of floats are.
Tag == [nil |-> 0, int8 |-> 1, int64 |-> 1, uint8 |-> 2, uint64 |-> 2,
        float32 |-> 3, float64 |-> 4, bool |-> 5, string |-> 6, bytes |-> 7,
        time |-> 8, raw |-> 9]

\* A value the reverse engine could not render is not stored.
Storable(x) ==
    /\ x.type \in DOMAIN Tag
    /\ x.type = "raw" => ValidRaw(x.holds)

Text(s) == Uvarint[Len(s)] \o s

Tagged(x) ==
    <<Tag[x.type]>> \o
    CASE x.type \in {"int8", "int64"} -> Varint(x.holds[1])
      [] x.type \in {"uint8", "uint64"} -> Uvarint[x.holds[1]]
      [] x.type \in {"string", "bytes", "raw"} -> Text(x.holds)
      [] x.type = "time" -> Varint(x.holds[1]) \o Uvarint[x.holds[2]]
      [] OTHER -> x.holds

\* (the mark of a column that may not be assigned to is forgotten)
KeyFlag(c) == IF c.key THEN 1 ELSE 0

\* flagPrimaryKey and flagReadOnly.
Flags(c) == (IF c.key THEN 1 ELSE 0) + (IF c.readOnly THEN 2 ELSE 0)
KnownFlags == 0 .. 3

Concatenated(seqs) ==
    LET upTo[n \in 0 .. Len(seqs)] == IF n = 0 THEN <<>> ELSE upTo[n - 1] \o seqs[n]
    IN  upTo[Len(seqs)]

Record(items) == <<CodecVersion>> \o Uvarint[Len(items)] \o Concatenated(items)

EncodeRow(row) == Record([i \in DOMAIN row |-> Tagged(row[i])])

EncodeColumns(cols) ==
    Record([i \in DOMAIN cols |-> Text(cols[i].name) \o <<Flags(cols[i])>>])

----------------------------------------------------------------------------
(* Decoding.  A read takes what it needs off the front of the bytes, or    *)
(* refuses the record.                                                     *)

Refused == [ok |-> FALSE]
Got(is, rest) == [ok |-> TRUE, is |-> is, rest |-> rest]

Then(r, Read(_, _)) == IF r.ok THEN Read(r.is, r.rest) ELSE r
Only(r, Sound(_)) == IF r.ok THEN IF Sound(r.is) THEN r ELSE Refused ELSE r

\* next and readByte.
Taken(n, b) ==
    IF n > Len(b) THEN Refused
    ELSE Got(SubSeq(b, 1, n), SubSeq(b, n + 1, Len(b)))

ReadByte(b) == Then(Taken(1, b), LAMBDA first, rest : Got(first[1], rest))

\* binary.Uvarint and Varint, with room for so many digits: the first byte
\* without its high bit ends a number, which has to end in time and to fit.
ReadDigits[room \in 1 .. Digits] ==
    [b \in Seq(Byte) |->
        Then(ReadByte(b), LAMBDA first, rest :
            IF first < Half
            THEN IF room = 1 /\ first > 1 THEN Refused ELSE Got(first, rest)
            ELSE IF room = 1 THEN Refused
            ELSE Then(ReadDigits[room - 1][rest], LAMBDA more, left :
                    Got(first - Half + Half * more, left)))]

ReadUvarint(b) == ReadDigits[Digits][b]

ReadVarint(b) ==
    Then(ReadUvarint(b), LAMBDA v, rest :
        Got(IF v % 2 = 1 THEN -(v \div 2) - 1 ELSE v \div 2, rest))

ReadText(b) == Then(ReadUvarint(b), Taken)

ReadTime(b) ==
    Then(ReadVarint(b), LAMBDA seconds, rest :
        Then(Only(ReadUvarint(rest), LAMBDA v : v < Second),
             LAMBDA nanoseconds, left : Got(<<seconds, nanoseconds, 0>>, left)))

AsSequence(r) == Then(r, LAMBDA v, rest : Got(<<v>>, rest))

\* (what the file holds is trusted)
ReadRawTrusted(b) == ReadText(b)

\* The one value that reaches a script unquoted is looked at again.
ReadRaw(b) == Only(ReadText(b), ValidRaw)

Holds(tag, b) ==
    CASE tag = Tag["nil"] -> Got(<<>>, b)
      [] tag = Tag["int64"] -> AsSequence(ReadVarint(b))
      [] tag = Tag["uint64"] -> AsSequence(ReadUvarint(b))
      [] tag = Tag["float32"] -> Taken(1, b)
      [] tag = Tag["float64"] -> Taken(2, b)
      [] tag = Tag["bool"] -> Only(Taken(1, b), LAMBDA h : h[1] <= 1)
      [] tag \in {Tag["string"], Tag["bytes"]} -> ReadText(b)
      [] tag = Tag["time"] -> ReadTime(b)
      [] tag = Tag["raw"] -> ReadRaw(b)
      [] OTHER -> Refused

\* (every float is read as the widest, too)
TypeReadWide == <<"nil", "int64", "uint64", "float64", "float64", "bool",
                  "string", "bytes", "time", "raw">>

\* The type a tag is read back as, the widest of the integers.
TypeRead == <<"nil", "int64", "uint64", "float32", "float64", "bool",
              "string", "bytes", "time", "raw">>

ReadValue(b) ==
    Then(ReadByte(b), LAMBDA tag, rest :
        Then(Holds(tag, rest), LAMBDA holds, left :
            Got(Value(TypeRead[tag + 1], holds), left)))

\* A flag this build does not know may be a mark it would drop.
ReadColumn(b) ==
    Then(ReadText(b), LAMBDA name, rest :
        Then(Only(ReadByte(rest), LAMBDA flags : flags \in KnownFlags),
             LAMBDA flags, left :
                Got([name |-> name, key |-> flags % 2 = 1, readOnly |-> flags \div 2 = 1],
                    left)))

ReadItem(kind, b) == IF kind = "row" THEN ReadValue(b) ELSE ReadColumn(b)

ReadItems(kind, n, b) ==
    LET upTo[k \in Nat] ==
            IF k = 0 THEN Got(<<>>, b)
            ELSE Then(upTo[k - 1], LAMBDA items, rest :
                    Then(ReadItem(kind, rest), LAMBDA item, left :
                        Got(Append(items, item), left)))
    IN  upTo[n]

\* checkVersion: older records stay readable.
ReadVersion(b) == Only(ReadByte(b), LAMBDA version : version <= CodecVersion)

\* (what is left after the items is passed over)
LeftOver(r) == r

\* A record ends with its last item.
Emptied(r) == IF r.ok /\ r.rest # <<>> THEN Refused ELSE r

\* The least a value and a column take: a tag, a length and the flags.
Least == [row |-> 1, columns |-> 2]

\* A count larger than what is left is refused before it sizes anything.
Decoded(kind, b) ==
    Then(ReadVersion(b), LAMBDA version, rest :
        Then(ReadUvarint(rest), LAMBDA n, left :
            IF n > Len(left) \div Least[kind] THEN Refused
            ELSE Emptied(ReadItems(kind, n, left))))

DecodeRow(b) == Decoded("row", b)
DecodeColumns(b) == Decoded("columns", b)

----------------------------------------------------------------------------
(* A record and what becomes of it.                                        *)

Init ==
    /\ content = [kind |-> "row", items |-> <<>>]
    /\ record = <<>> /\ fate = "none" /\ alters = 0

StoreRow(row) ==
    /\ fate = "none" /\ \A i \in DOMAIN row : Storable(row[i])
    /\ content' = [kind |-> "row", items |-> row]
    /\ record' = EncodeRow(row) /\ fate' = "written"
    /\ UNCHANGED alters

RefuseRow(row) ==
    /\ fate = "none" /\ \E i \in DOMAIN row : ~ Storable(row[i])
    /\ content' = [kind |-> "row", items |-> row]
    /\ fate' = "refused"
    /\ UNCHANGED <<record, alters>>

StoreColumns(cols) ==
    /\ fate = "none"
    /\ content' = [kind |-> "columns", items |-> cols]
    /\ record' = EncodeColumns(cols) /\ fate' = "written"
    /\ UNCHANGED alters

\* The record was not written to its end, or pages of the file are lost.
Cut(n) ==
    /\ fate = "written"
    /\ record' = SubSeq(record, 1, n) /\ fate' = "cut"
    /\ UNCHANGED <<content, alters>>

Extend(b) ==
    /\ fate = "written"
    /\ record' = Append(record, b) /\ fate' = "extended"
    /\ UNCHANGED <<content, alters>>

\* Anything on the host may have edited the file.
Alter(i, b) ==
    /\ fate \in {"written", "altered"} /\ alters < MaxAlters
    /\ b # record[i]
    /\ record' = [record EXCEPT ![i] = b] /\ fate' = "altered"
    /\ alters' = alters + 1
    /\ UNCHANGED content

\* A newer build's record, as like this build's as it could be.
NewerBuild ==
    /\ fate = "written"
    /\ record' = [record EXCEPT ![1] = CodecVersion + 1] /\ fate' = "newer"
    /\ UNCHANGED <<content, alters>>

SeqsOf(S) == UNION {[1 .. n -> S] : n \in 0 .. MaxValues}

Next ==
    \/ \E row \in SeqsOf(Values) : StoreRow(row) \/ RefuseRow(row)
    \/ \E cols \in SeqsOf(Columns) : StoreColumns(cols)
    \/ \E n \in 0 .. Len(record) - 1 : Cut(n)
    \/ \E b \in Byte : Extend(b)
    \/ \E i \in DOMAIN record, b \in Byte : Alter(i, b)
    \/ NewerBuild

Spec == Init /\ [][Next]_vars

\* What the record is read as.
Read == Decoded(content.kind, record)

----------------------------------------------------------------------------
\* Every value of a row that is stored comes back as one the same statement
\* is written for, and two values of one column are the same when they come
\* back just when they were when they went in: what a column was updated
\* from and to is still told apart, and nothing else is (EncodeRow,
\* appendValue).
RendersTheSame ==
    fate = "written" /\ content.kind = "row" =>
        LET items == content.items
            read == Read.is
        IN  /\ Read.ok /\ Len(read) = Len(items)
            /\ \A i \in DOMAIN items :
                  /\ Literal(items[i]) # Unrendered
                  /\ Literal(read[i]) = Literal(items[i])
            /\ \A i, j \in DOMAIN items :
                  items[i].type = items[j].type =>
                      (read[i] = read[j]) = (Instant(items[i]) = Instant(items[j]))

\* A list of columns comes back as it was, marks and all (EncodeColumns).
ColumnsComeBack ==
    fate = "written" /\ content.kind = "columns" => Read = Got(content.items, <<>>)

\* A record that was cut short anywhere, that goes on after its end or that a
\* newer build wrote is refused as a whole (DecodeRow, DecodeColumns).
NothingMadeUp == fate \in {"cut", "extended", "newer"} => ~ Read.ok

\* Whatever was done to a record, what is read out of it could have been put
\* into one: no number that is none reaches a script, no second has more
\* nanoseconds than it can, and nothing is left over or left out.
OnlyWhatCouldBeWritten ==
    LET read == Read
    IN  read.ok =>
            IF content.kind = "row"
            THEN /\ \A i \in DOMAIN read.is : Storable(read.is[i])
                 /\ DecodeRow(EncodeRow(read.is)) = read
            ELSE DecodeColumns(EncodeColumns(read.is)) = read
=============================================================================
