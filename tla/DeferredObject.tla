--------------------------- MODULE DeferredObject ---------------------------
(***************************************************************************)
(* The fields of an object whose tag has not been read yet are kept raw    *)
(* (deferred.rs).  They are counted as they come, so that an object too    *)
(* large is refused before it is held, and written out as one object for   *)
(* the decoder of the tag's type.  A field is a name and a value, of which *)
(* only the lengths matter.                                                *)
(***************************************************************************)
EXTENDS Limits, Sequences

CONSTANTS
    Names,          \* names of fields
    NameLength,     \* their lengths
    ValueLengths    \* lengths of values

\* An empty object is no larger than an envelope: 24 MiB.
ASSUME FieldsAssumption ==
    NameLength \in [Names -> Nat] /\ ValueLengths \subseteq Nat /\ 2 <= MAX_ENVELOPE_BYTES

VARIABLES
    fields,         \* DeferredObject.fields, in the order they came
    encoded_bytes,  \* DeferredObject.encoded_bytes
    progress,       \* "reading", "duplicate", "too_large", "decoded", "refused_late"
    offered         \* every field that was read, the last one perhaps not kept

deferredVars == <<fields, encoded_bytes, progress, offered>>

DeferredInit ==
    /\ fields = <<>> /\ offered = <<>>
    /\ encoded_bytes = 2
    /\ progress = "reading"

NoSeparator(isFirst) == 0   \* mutant: commas not counted
separator(isFirst) == IF isFirst THEN 0 ELSE 1

field_cost(nameLength, valueLength, isFirst) ==
    nameLength + 3 + valueLength + separator(isFirst)

Field(n, v) == [name |-> n, value |-> v]

Insert(n, v) ==
    LET next == encoded_bytes + field_cost(NameLength[n], v, fields = <<>>) IN
    /\ progress = "reading"
    /\ offered' = Append(offered, Field(n, v))
    /\ IF \E i \in DOMAIN fields : fields[i].name = n
       THEN progress' = "duplicate" /\ UNCHANGED <<fields, encoded_bytes>>
       ELSE IF next > MAX_ENVELOPE_BYTES
       THEN progress' = "too_large" /\ UNCHANGED <<fields, encoded_bytes>>
       ELSE /\ encoded_bytes' = next
            /\ fields' = Append(fields, Field(n, v))
            /\ UNCHANGED progress

\* What `decode' writes: a brace, the fields each with its quotes and its colon,
\* a comma before all but the first, and a brace.
Repeat(c, n) == [i \in 1 .. n |-> c]

Written(f) ==
    <<"quote">> \o Repeat("n", NameLength[f.name]) \o <<"quote", ":">> \o Repeat("v", f.value)

Text(fs) ==
    LET text[n \in 0 .. Len(fs)] ==
          IF n = 0 THEN <<>>
          ELSE text[n - 1] \o (IF n = 1 THEN <<>> ELSE <<",">>) \o Written(fs[n])
    IN text[Len(fs)]

Encoding(fs) == <<"{">> \o Text(fs) \o <<"}">>

\* The object has ended; its fields are written out and decoded again.
Decode ==
    /\ progress = "reading"
    /\ progress' = IF Len(Encoding(fields)) > MAX_ENVELOPE_BYTES THEN "refused_late" ELSE "decoded"
    /\ UNCHANGED <<fields, encoded_bytes, offered>>

DeferredNext ==
    \/ \E n \in Names, v \in ValueLengths : Insert(n, v)
    \/ Decode

DeferredSpec == DeferredInit /\ [][DeferredNext]_deferredVars

\* The estimate is the size of what is written, so that an object is refused as
\* soon as and only when the object it stands for is too large, never once it is
\* held, and one of exactly the largest size passes.
EstimateIsExact ==
    /\ encoded_bytes = Len(Encoding(fields))
    /\ progress # "refused_late"
    /\ progress = "too_large" => Len(Encoding(offered)) > MAX_ENVELOPE_BYTES
    /\ progress = "decoded" => Len(Encoding(offered)) <= MAX_ENVELOPE_BYTES
=============================================================================
