------------------------------ MODULE Bencode ------------------------------
(***************************************************************************)
(* bencode.rs: the recursive-descent parser, strict and lenient about the  *)
(* order of dictionary keys, and the scanner that cuts the raw bytes of    *)
(* the info dictionary out of a .torrent file without building values.     *)
(* The info-hash is taken from the slice and the seeding parameters from   *)
(* the parsed value, so the two have to speak of the same bytes.           *)
(*                                                                         *)
(* The payload is grown by fragments for as long as only its end is        *)
(* missing.  A byte is a one-character string, and a value is <<kind,      *)
(* content>>; an error is the step that failed, with no offset.            *)
(***************************************************************************)
EXTENDS Integers, Sequences, SequencesExt

CONSTANTS
    Fragment,      \* sequences of bytes the payload is grown by
    Info,          \* the key "info"
    MaxFragments   \* bound on the payload

VARIABLES
    input,         \* the payload
    fragments,     \* how many went into it
    read           \* what each reader makes of it

bencodeVars == <<input, fragments, read>>

Digit == {"0", "1", "2", "3"}
DigitValue == [d \in Digit |-> CASE d = "0" -> 0 [] d = "1" -> 1 [] d = "2" -> 2 [] d = "3" -> 3]

\* The order of the bytes in ASCII.
Code == [b \in Digit \cup {"-", "+", ":", "a", "d", "e", "i", "l", "n"} |->
            CASE b = "+" -> 43 [] b = "-" -> 45 [] b = ":" -> 58 [] b = "a" -> 97
              [] b = "d" -> 100 [] b = "e" -> 101 [] b = "i" -> 105 [] b = "l" -> 108
              [] b = "n" -> 110 [] OTHER -> 48 + DigitValue[b]]

Success(value, end) == [ok |-> TRUE, value |-> value, end |-> end]
Error(why) == [ok |-> FALSE, why |-> why]
Eof == Error("UnexpectedEof")

Number(digits) == FoldLeft(LAMBDA n, d : 10 * n + DigitValue[d], 0, digits)

\* Positions of a byte at or after pos: the first of them is where a scan that
\* stops at this byte stops.
Scan(s, pos, byte) ==
    LET hits == {i \in pos..Len(s) : s[i] = byte}
    IN  IF hits = {} THEN 0 ELSE CHOOSE i \in hits : \A j \in hits : i <= j

Less(a, b) ==
    \/ Len(a) < Len(b) /\ IsPrefix(a, b)
    \/ \E i \in DOMAIN a \cap DOMAIN b :
           /\ \A j \in 1..(i - 1) : a[j] = b[j]
           /\ Code[a[i]] < Code[b[i]]

\* BEP-3: neither -0 nor leading zeros.
Illegal(digits) ==
    \/ digits = <<"-", "0">>
    \/ Len(digits) > 1 /\ Head(digits) = "0"
    \/ Len(digits) > 2 /\ digits[1] = "-" /\ digits[2] = "0"

\* parse_integer(): i64::from_str also takes a plus sign.
ParseInteger(s, pos) ==
    LET end    == Scan(s, pos + 1, "e")
        digits == SubSeq(s, pos + 1, end - 1)
        signed == digits # <<>> /\ Head(digits) \in {"-", "+"}
        plain  == IF signed THEN Tail(digits) ELSE digits
    IN  CASE end = 0 -> Eof
          [] end # 0 /\ Illegal(digits) -> Error("IllegalIntegerEncoding")
          [] end # 0 /\ ~Illegal(digits) /\ (plain = <<>> \/ ~(ToSet(plain) \subseteq Digit)) ->
                 Error("InvalidInteger")
          [] OTHER -> Success(<<"int", IF signed /\ Head(digits) = "-" THEN -Number(plain)
                                                                    ELSE Number(plain)>>, end + 1)

\* parse_byte_string(): any number of digits, leading zeros too, then the bytes.
ParseByteString(s, pos) ==
    LET colon  == Scan(s, pos, ":")
        stop   == IF colon = 0 THEN Len(s) + 1 ELSE colon
        digits == SubSeq(s, pos, stop - 1)
        end    == colon + 1 + Number(digits)
    IN  CASE ~(ToSet(digits) \subseteq Digit) -> Error("InvalidLength")
          [] ToSet(digits) \subseteq Digit /\ colon = 0 -> Eof
          [] colon # 0 /\ digits = <<>> -> Error("InvalidLength")
          [] OTHER -> IF end > Len(s) + 1 THEN Error("TruncatedString")
                      ELSE Success(<<"bytes", SubSeq(s, colon + 1, end - 1)>>, end)

\* Deliberate mistake: the order of keys is not looked at.
SlipInOrder(strict, key, next) == TRUE

\* Strictly ascending keys, if asked for: a key against the one read after it.
InOrder(strict, key, next) == strict /\ next.ok => Less(key, next.value[2])

\* A later entry of the same key replaces the first (BTreeMap::insert).
Map(entries) ==
    [k \in {e.key : e \in ToSet(entries)} |->
        (CHOOSE e \in ToSet(entries) : e.key = k /\ \E i \in DOMAIN entries :
            entries[i] = e /\ \A j \in (i + 1)..Len(entries) : entries[j].key # k).value]

\* A step that needs the result of another, as Rust's ? has it.
Then(result, Next_(_)) == IF result.ok THEN Next_(result) ELSE result

\* parse_value(), and the loops of parse_list() and parse_dict() from a position
\* on: what is left of the items or entries up to their e.
Parsing(s, strict) ==
    LET parse[loop \in {"value", "list", "dict"}, pos \in 1..(Len(s) + 1)] ==
          CASE pos > Len(s) -> Eof
            [] loop # "value" /\ pos <= Len(s) /\ s[pos] = "e" -> Success(<<>>, pos + 1)
            [] loop = "list" /\ pos <= Len(s) /\ s[pos] # "e" ->
                 Then(parse["value", pos], LAMBDA item :
                 Then(parse["list", item.end], LAMBDA rest :
                     Success(<<item.value>> \o rest.value, rest.end)))
            [] loop = "dict" /\ pos <= Len(s) /\ s[pos] \notin Digit \cup {"e"} ->
                 Error("DictKeyNotString")
            [] loop = "dict" /\ pos <= Len(s) /\ s[pos] \in Digit ->
                 Then(ParseByteString(s, pos), LAMBDA key :
                 Then(parse["value", key.end], LAMBDA item :
                 IF InOrder(strict, key.value[2], ParseByteString(s, item.end))
                 THEN Then(parse["dict", item.end], LAMBDA rest :
                          Success(<<[key |-> key.value[2], value |-> item.value]>>
                                  \o rest.value, rest.end))
                 ELSE Error("DictUnordered")))
            [] loop = "value" /\ pos <= Len(s) ->
                 CASE s[pos] = "i" -> ParseInteger(s, pos)
                   [] s[pos] \in Digit -> ParseByteString(s, pos)
                   [] s[pos] = "l" -> Then(parse["list", pos + 1], LAMBDA items :
                                     Success(<<"list", items.value>>, items.end))
                   [] s[pos] = "d" -> Then(parse["dict", pos + 1], LAMBDA entries :
                                     Success(<<"dict", Map(entries.value)>>, entries.end))
                   [] OTHER -> Error("Unexpected")
    IN  parse["value", 1]

\* parse() and parse_lenient()
Parse(s, strict) ==
    Then(Parsing(s, strict), LAMBDA value :
        IF value.end = Len(s) + 1 THEN value ELSE Error("TrailingBytes"))

\* skip_value(), with its loops: no value is built, no order is looked at.
Skipping(s) ==
    LET skip[loop \in {"value", "list", "dict"}, pos \in 1..(Len(s) + 1)] ==
          CASE pos > Len(s) -> Eof
            [] loop # "value" /\ pos <= Len(s) /\ s[pos] = "e" -> Success(<<>>, pos + 1)
            [] loop = "list" /\ pos <= Len(s) /\ s[pos] # "e" ->
                 Then(skip["value", pos], LAMBDA item : skip["list", item.end])
            [] loop = "dict" /\ pos <= Len(s) /\ s[pos] # "e" ->
                 Then(ParseByteString(s, pos), LAMBDA key :
                 Then(skip["value", key.end], LAMBDA item : skip["dict", item.end]))
            [] loop = "value" /\ pos <= Len(s) ->
                 CASE s[pos] = "i" -> ParseInteger(s, pos)
                   [] s[pos] \in Digit -> ParseByteString(s, pos)
                   [] s[pos] = "l" -> skip["list", pos + 1]
                   [] s[pos] = "d" -> skip["dict", pos + 1]
                   [] OTHER -> Error("Unexpected")
    IN  skip

\* extract_info_dict_bytes(): the raw bytes of the first info key.
ExtractInfoDictBytes(s) ==
    LET skip == Skipping(s)
        find[pos \in 1..(Len(s) + 1)] ==
          IF pos > Len(s) THEN Eof
          ELSE IF s[pos] = "e" THEN Error("MissingKey")
          ELSE Then(ParseByteString(s, pos), LAMBDA key :
               Then(skip["value", key.end], LAMBDA entry :
                   IF key.value[2] = Info
                   THEN Success(SubSeq(s, key.end, entry.end - 1), entry.end)
                   ELSE find[entry.end]))
    IN  IF s = <<>> THEN Eof
        ELSE IF Head(s) # "d" THEN Error("TopLevelNotDict")
        ELSE find[2]

TypeOK ==
    /\ ToSet(input) \subseteq DOMAIN Code
    /\ fragments \in 0..MaxFragments

\* What the four readers make of a payload.
Readings(s) ==
    [lenient |-> Parsing(s, FALSE), strict |-> Parse(s, TRUE), skipped |-> Skipping(s)["value", 1],
     info |-> ExtractInfoDictBytes(s)]

Init == input = <<>> /\ fragments = 0 /\ read = Readings(<<>>)

\* The payload grows while only its end is missing, and once past it.
Grow(f) ==
    /\ fragments < MaxFragments /\ fragments' = fragments + 1
    /\ IF read.lenient.ok THEN read.lenient.end = Len(input) + 1
                          ELSE read.lenient.why \in {"UnexpectedEof", "TruncatedString"}
    /\ input' = input \o f
    /\ read' = Readings(input')

Next == \E f \in Fragment : Grow(f)

Spec == Init /\ [][Next]_bencodeVars
-----------------------------------------------------------------------------
\* The readers agree.  The scanner steps over exactly what the lenient parser
\* reads; what is strictly valid means the same to the lenient parser; and in a
\* strictly valid file the bytes that are hashed are a strictly valid payload of
\* their own, whose value is that of the info key (bencode.rs:3-9).
ReadersAgree ==
    /\ read.skipped.ok = read.lenient.ok
    /\ read.skipped.ok => read.skipped.end = read.lenient.end
    /\ read.strict.ok => read.lenient = read.strict
    /\ read.strict.ok /\ read.strict.value[1] = "dict" =>
           /\ read.info.ok = (Info \in DOMAIN read.strict.value[2])
           /\ read.info.ok => Parse(read.info.value, TRUE) =
                  Success(read.strict.value[2][Info], Len(read.info.value) + 1)
=============================================================================
