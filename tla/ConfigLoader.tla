----------------------------- MODULE ConfigLoader -----------------------------
(***************************************************************************)
(* config.Load: populate walks a struct field by field, into structs and   *)
(* pointers to structs, and setField parses one environment value.         *)
(*                                                                         *)
(* A struct type is the sequence of its fields in the order of declaration *)
(* where a field that is a struct, or points to one, is followed by its    *)
(* own fields and says how many they are.  The recursion of populate meets *)
(* the fields in that order: a cursor stands for its call stack, and       *)
(* skipping a field skips what is inside it.  A raw value is the sequence  *)
(* of its parts between commas, each part a token.                         *)
(***************************************************************************)
EXTENDS Integers, Sequences

CONSTANTS Keys,       \* names of environment variables
          Raws,       \* raw values, as sequences of tokens
          Shapes      \* the structs that Load is given

Unset == <<>>       \* os.LookupEnv says that the variable does not exist

Fields ==
  [kind : STRING, env : STRING, envDefault : Seq(STRING) \ {<<"">>}, settable : BOOLEAN, inside : Nat]

(* The last field inside field i of a struct, i itself if there is none.   *)
End(fields, i) == i + fields[i].inside

(* The fields inside a field come after it and end before those around it. *)
ASSUME ShapesAssumption ==
  \A fields \in Shapes :
    /\ fields \in Seq(Fields)
    /\ \A i \in DOMAIN fields :
         /\ End(fields, i) <= Len(fields)
         /\ \A j \in i .. End(fields, i) : End(fields, j) <= End(fields, i)

VARIABLES
  environ,    \* [Keys -> raw value, or Unset]
  shape,      \* the type of the struct
  preset,     \* its contents before Load
  config,     \* its contents
  cursor,     \* the field populate is at, 0 before
  loadErr     \* what Load returned: "none" before it does

configVars == <<environ, shape, preset, config, cursor, loadErr>>

(* The contents of one field: of a string, of a number (a Boolean is 0 or  *)
(* 1, a duration counts seconds), of a slice, of a pointer.                *)
Zero == [text |-> <<"">>, num |-> 0, list |-> <<>>, allocated |-> FALSE]

(* Types of one field, of a field with fields inside, of one in lower case.*)
Leaf(kind, env, default) ==
  <<[kind |-> kind, env |-> env, envDefault |-> default, settable |-> TRUE, inside |-> 0]>>
Nested(kind, fields) ==
  <<[Leaf(kind, "", Unset)[1] EXCEPT !.inside = Len(fields)]>> \o fields
Unexported(fields) == [fields EXCEPT ![1].settable = FALSE]

-----------------------------------------------------------------------------
(* strconv and time.ParseDuration, on the tokens in use: Bad is an error.  *)
Bad == -1
ParseInt(tok)      == CASE tok = "7" -> 7 [] tok = "300" -> 300 [] OTHER -> Bad
ParseBool(tok)     == CASE tok = "true" -> 1 [] OTHER -> Bad
ParseDuration(tok) == CASE tok = "7s" -> 7 [] OTHER -> Bad

TrimSpace(tok) == IF tok = " " THEN "" ELSE tok

(* A field of 8 bits: what does not fit is an error, not truncated.        *)
OverflowInt(n) == n > 127

Ok(v)  == [ok |-> TRUE, v |-> v]
Failed == [ok |-> FALSE, v |-> Zero]

Number(n) == IF n = Bad THEN Failed ELSE Ok([Zero EXCEPT !.num = n])

(* Parts that are blank once trimmed are dropped; the first bad one ends   *)
(* the slice.                                                              *)
Elements(raw) ==
  LET parts == SelectSeq([i \in DOMAIN raw |-> TrimSpace(raw[i])], LAMBDA x : x # "")
      nums  == [i \in DOMAIN parts |-> ParseInt(parts[i])] IN
  IF \E i \in DOMAIN nums : nums[i] = Bad \/ OverflowInt(nums[i]) THEN Failed
  ELSE Ok([Zero EXCEPT !.list = nums])

setField(kind, raw) ==
  LET whole == IF Len(raw) = 1 THEN raw[1] ELSE "a,b"
      n     == ParseInt(whole) IN
  CASE kind = "string"   -> Ok([Zero EXCEPT !.text = raw])
    [] kind = "int8"     -> IF OverflowInt(n) THEN Failed ELSE Number(n)
    [] kind = "bool"     -> Number(ParseBool(whole))
    [] kind = "duration" -> Number(ParseDuration(whole))
    [] kind = "[]int8"   -> Elements(raw)
    [] OTHER             -> Failed

(* Variant: an empty variable is taken for an absent one.                  *)
RawEmptyUnset(f) ==
  IF environ[f.env] \notin {Unset, <<"">>} THEN environ[f.env] ELSE f.envDefault

(* The variable if it exists, empty or not, and otherwise the default.     *)
Raw(f) == IF environ[f.env] # Unset THEN environ[f.env] ELSE f.envDefault

-----------------------------------------------------------------------------
(* A struct the caller passes: zero, or with values and targets of its own.*)
Contents(fields, filled) ==
  [i \in DOMAIN fields |->
     IF ~filled THEN Zero
     ELSE IF fields[i].kind = "ptr" THEN [Zero EXCEPT !.allocated = TRUE]
     ELSE [Zero EXCEPT !.num = 1]]

ConfigInit ==
  /\ environ \in [Keys -> Raws \cup {Unset}]
  /\ shape \in Shapes
  /\ preset \in {Contents(shape, filled) : filled \in BOOLEAN}
  /\ config = preset
  /\ cursor = 0
  /\ loadErr = "none"

(* Load on a pointer to a struct enters populate.                          *)
Load ==
  /\ loadErr = "none" /\ cursor = 0
  /\ cursor' = 1
  /\ UNCHANGED <<environ, shape, preset, config, loadErr>>

(* Load on nil, on a value or on a pointer to something else.              *)
LoadRefused ==
  /\ loadErr = "none" /\ cursor = 0
  /\ loadErr' = "kindErr"
  /\ UNCHANGED <<environ, shape, preset, config, cursor>>

(* populate, at one field.                                                 *)
field == shape[cursor]

AtField(settable) ==
  /\ loadErr = "none" /\ cursor \in 1 .. Len(shape)
  /\ field.settable = settable
  /\ UNCHANGED <<environ, shape, preset>>

Structs == {"struct", "ptr"}

(* A field that cannot be set is left alone with all that is inside.       *)
SkipUnsettable ==
  /\ AtField(FALSE)
  /\ cursor' = End(shape, cursor) + 1
  /\ UNCHANGED <<config, loadErr>>

(* Into a struct, or through a pointer that is allocated if it was nil.    *)
Descend ==
  /\ AtField(TRUE) /\ field.kind \in Structs
  /\ cursor' = cursor + 1
  /\ config' = IF field.kind = "ptr" THEN [config EXCEPT ![cursor].allocated = TRUE]
                                     ELSE config
  /\ UNCHANGED loadErr

Bindable == AtField(TRUE) /\ field.kind \notin Structs

HasValue == field.env # "" /\ Raw(field) # Unset

(* No tag, or neither a variable nor a default: the field keeps its value. *)
SkipUnbound ==
  /\ Bindable /\ ~HasValue
  /\ cursor' = cursor + 1
  /\ UNCHANGED <<config, loadErr>>

(* setField succeeds, or its error ends the walk at once.                  *)
Assign ==
  LET s == setField(field.kind, Raw(field)) IN
  /\ Bindable /\ HasValue
  /\ \/ /\ s.ok /\ config' = [config EXCEPT ![cursor] = s.v]
        /\ cursor' = cursor + 1 /\ UNCHANGED loadErr
     \/ ~s.ok /\ loadErr' = "setErr" /\ UNCHANGED <<config, cursor>>

(* The walk is over; the validator looks at the struct and leaves it alone.*)
Validate ==
  /\ loadErr = "none" /\ cursor = Len(shape) + 1
  /\ loadErr' \in {"nil", "validateErr"}
  /\ UNCHANGED <<environ, shape, preset, config, cursor>>

populate == SkipUnsettable \/ Descend \/ SkipUnbound \/ Assign

Used == loadErr # "none" /\ UNCHANGED configVars

ConfigNext == Load \/ LoadRefused \/ populate \/ Validate \/ Used

ConfigSpec == ConfigInit /\ [][ConfigNext]_configVars

-----------------------------------------------------------------------------
(* The fields that Load may write: settable, and so is all that is around. *)
Reachable(i) == \A j \in 1 .. i : i <= End(shape, j) => shape[j].settable

(* Those that it sets: not structs, with a tag, and with a value to be set *)
(* from.                                                                   *)
Bound(i) ==
  /\ Reachable(i) /\ shape[i].kind \notin Structs /\ shape[i].env # ""
  /\ environ[shape[i].env] # Unset \/ shape[i].envDefault # Unset

Wanted(i) ==
  setField(shape[i].kind, IF environ[shape[i].env] = Unset THEN shape[i].envDefault
                                                           ELSE environ[shape[i].env])

Wrong(i) == Bound(i) /\ ~Wanted(i).ok

Expected(i) ==
  IF ~Reachable(i) \/ \E j \in 1 .. i : Wrong(j) THEN preset[i]
  ELSE IF shape[i].kind = "ptr" THEN [preset[i] EXCEPT !.allocated = TRUE]
  ELSE IF Bound(i) THEN Wanted(i).v ELSE preset[i]

(* Load against a definition without the walk: the fields before the first *)
(* one whose value cannot be set, if any, are set or, for pointers,        *)
(* allocated, and all the others are as they were.  So an error leaves the *)
(* struct half filled, and how far is determined; and what lies inside a   *)
(* field that cannot be set neither changes nor fails.  How one value is   *)
(* parsed is setField's business on both sides, and a variable that exists *)
(* and is empty counts as a value, as the comment in populate has it.      *)
LoadIsReference ==
  loadErr \in {"nil", "validateErr", "setErr"} =>
    /\ config = [i \in DOMAIN shape |-> Expected(i)]
    /\ loadErr = "setErr" <=> \E i \in DOMAIN shape : Wrong(i)

(* What the doc of Load says of envDefault instead: the default is used if *)
(* the variable is absent or empty.                                        *)
EmptyTakesDefault ==
  \A i \in DOMAIN shape :
    i < cursor /\ Bound(i) /\ shape[i].envDefault # Unset
      /\ environ[shape[i].env] \in {Unset, <<"">>}
    => config[i] = setField(shape[i].kind, shape[i].envDefault).v
=============================================================================
