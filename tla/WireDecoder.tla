---------------------------- MODULE WireDecoder ----------------------------
(***************************************************************************)
(* One object on the wire, read field by field by the visitor written for  *)
(* its type.  A sender writes a shape of the type with its fields in any   *)
(* order and deviates from it at most MaxFaults times; the visitor stores  *)
(* fields in slots, refuses what it can refuse at once and decides the     *)
(* rest when the object ends.                                              *)
(***************************************************************************)
EXTENDS WireFormats

CONSTANT MaxFaults

ASSUME FaultsAssumption == MaxFaults \in Nat

VARIABLES
    type,     \* the type that is read
    shape,    \* the variant the sender writes
    todo,     \* the fields the sender has yet to write
    slots,    \* the visitor's slots: field to the kind that was read
    spoilt,   \* whether a field was written twice or is nobody's
    faults,   \* deviations so far
    outcome,  \* "reading", "accepted" or "rejected"
    value     \* what the visitor returns: field to kind

wireVars == <<type, shape, todo, slots, spoilt, faults, outcome, value>>

Format == Formats[type]

Shapes == DOMAIN Format.sends

TagField == {Format.tag} \ {NoTag}

Writes(s) == Format.sends[s].must \union Format.sends[s].may \union TagField

Known == UNION {Writes(s) : s \in Shapes}

\* The kind a field has in a shape.
Kind(s, f) ==
    LET kinds == Format.sends[s].kinds IN
    IF f \in DOMAIN kinds THEN kinds[f] ELSE IF f = Format.tag THEN s ELSE "good"

\* The kinds a field has in any shape.
Kinds(f) == {Kind(s, f) : s \in {t \in Shapes : f \in Writes(t)}}

Start == "none"

WireInit ==
    /\ type = Start /\ shape = Start /\ todo = {}
    /\ slots = <<>> /\ spoilt = FALSE /\ faults = 0
    /\ outcome = "reading" /\ value = <<>>

\* A sender begins an object; optional fields may be absent.
Begin(ty, s, absent) ==
    /\ type = Start
    /\ type' = ty /\ shape' = s
    /\ todo' = Formats[ty].sends[s].must \union ({Formats[ty].tag} \ {NoTag})
               \union (Formats[ty].sends[s].may \ absent)
    /\ UNCHANGED <<slots, spoilt, faults, outcome, value>>

-----------------------------------------------------------------------------
(* The visitor. *)

\* The field's own decoder takes the value at once, unless the visitor keeps it
\* for later.
Takes(f, k) ==
    \/ f \in Format.late
    \/ k \in Kinds(f)
    \/ k = "null" /\ f \in Format.nullable

\* `visit_map' meets a field: it must be known, new and well typed, and some
\* types have room for one field only.
Read(f, k) ==
    IF /\ f \in Known
       /\ f \notin DOMAIN slots
       /\ Format.single => slots = <<>>
       /\ Takes(f, k)
    THEN /\ slots' = Merge(slots, [g \in {f} |-> k])
         /\ UNCHANGED <<outcome, value>>
    ELSE /\ outcome' = "rejected"
         /\ UNCHANGED <<slots, value>>

\* The arm of the visitor that the slots select: its name.
Selected == IF Format.single THEN CHOOSE f \in DOMAIN slots : TRUE
            ELSE IF Format.tag = NoTag THEN NoTag ELSE slots[Format.tag]

ArmOf(a) == IF Format.single THEN Arm({a}, {}, {}) ELSE Format.arms[a]

\* Fields kept for later must be what the selected variant wants.
LateFieldsFit(a) ==
    \A f \in (DOMAIN slots \intersect Format.late) \ {Format.tag} :
        slots[f] = Kind(a, f) \/ (slots[f] = "null" /\ f \in Format.nullable)

\* The checks a few types make on the object as a whole.
Sound ==
    CASE type = "ScreenshotAsset" ->
            IF slots["format"] = "svg"
            THEN slots["safe"] = "true" <=> "rejection" \notin DOMAIN slots
            ELSE ~(slots["width"] = "long" /\ slots["height"] = "long")
      [] type \in {"ItemError", "ToolError"} ->
            slots["message"] = canonical_message(slots["code"])
      [] OTHER -> TRUE

Complete ==
    /\ TagField \subseteq DOMAIN slots
    /\ Format.single => slots # <<>>
    /\ ArmOf(Selected).needs \subseteq DOMAIN slots
    /\ ArmOf(Selected).bars \intersect DOMAIN slots = {}
    /\ LateFieldsFit(Selected)
    /\ Sound

NonNull == {f \in DOMAIN slots : slots[f] # "null"}

Finish ==
    /\ type # Start /\ outcome = "reading" /\ todo = {}
    /\ IF Complete
       THEN /\ outcome' = "accepted"
            /\ value' = [f \in NonNull \intersect
                               (TagField \union ArmOf(Selected).needs \union ArmOf(Selected).keeps)
                           |-> slots[f]]
       ELSE outcome' = "rejected" /\ UNCHANGED value
    /\ UNCHANGED <<type, shape, todo, slots, spoilt, faults>>

-----------------------------------------------------------------------------
(* The sender. *)

Reading == type # Start /\ outcome = "reading"

\* The next field as the shape has it.
Write(f) ==
    /\ Reading /\ f \in todo
    /\ Read(f, Kind(shape, f))
    /\ todo' = todo \ {f}
    /\ spoilt' = (spoilt \/ f \in DOMAIN slots)
    /\ UNCHANGED <<type, shape, faults>>

Deviate == Reading /\ faults < MaxFaults /\ faults' = faults + 1

\* A field is left out.
Skip(f) ==
    /\ Deviate
    /\ f \in todo \ Format.sends[shape].may
    /\ todo' = todo \ {f}
    /\ UNCHANGED <<type, shape, slots, spoilt, outcome, value>>

\* A field with another value, a field that was written already, that belongs to
\* another variant or that no variant has.
Stray(f, k) ==
    /\ Deviate
    /\ Read(f, k)
    /\ todo' = todo \ {f}
    /\ spoilt' = (spoilt \/ f \notin Known \/ f \in DOMAIN slots)
    /\ UNCHANGED <<type, shape>>

WireNext ==
    \/ \E ty \in DOMAIN Formats : \E s \in DOMAIN Formats[ty].sends :
          \E absent \in SUBSET Formats[ty].sends[s].may : Begin(ty, s, absent)
    \/ \E f \in todo : Write(f)
    \/ \E f \in todo : Skip(f)
    \/ Reading /\ \E f \in Known \union {"unknown"} :
          \E k \in {"bad", "null"} \union (IF f \in Known THEN Kinds(f) ELSE {}) : Stray(f, k)
    \/ Finish

WireSpec == WireInit /\ [][WireNext]_wireVars

-----------------------------------------------------------------------------
(* Properties. *)

\* `v' is what an encoder writes for shape s, but for fields with a default.
Encodes(s, v) ==
    /\ Format.sends[s].must \union TagField \subseteq DOMAIN v \union Format.defaults
    /\ DOMAIN v \subseteq Writes(s)
    /\ \A f \in DOMAIN v : v[f] = Kind(s, f)

\* Encoder and decoder agree, one way: whatever an encoder writes, in whatever
\* order its fields arrive, the visitor takes it, and takes it for what it is.
EveryEncoding ==
    faults = 0 =>
        /\ outcome # "rejected"
        /\ outcome = "accepted" => DOMAIN value \subseteq Writes(shape) /\ Encodes(shape, value)

\* The other way: what the visitor takes is what some encoder writes, with every
\* field once, and the value it returns has all of it.  The visitor of
\* ReactionAction lets fields of other variants pass.
OnlyEncodings ==
    outcome = "accepted" =>
        /\ ~spoilt
        /\ \E s \in Shapes : Encodes(s, value)
        /\ DOMAIN value = NonNull \/ type = "ReactionAction"

\* The same without the exception: the visitor of ReactionAction says it expects
\* "a closed prototype reaction action".
ClosedReactions ==
    outcome = "accepted" => DOMAIN value = NonNull
=============================================================================
