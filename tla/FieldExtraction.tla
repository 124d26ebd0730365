-------------------------- MODULE FieldExtraction --------------------------
(***************************************************************************)
(* What the pipeline computes of a document's text: the stub provider's    *)
(* keywords and labelled lines (internal/providers/llm/stub.go), what the  *)
(* Claude provider makes of a tool call (anthropic.go), validation         *)
(* (internal/validation) and the two functions of internal/agent/runner.go *)
(* on extracted fields.  Pure functions; where Go iterates over a map and  *)
(* stops at the first hit, the function returns a set of results.          *)
(*                                                                         *)
(* A value is its JSON type and the text it prints as: the text tells      *)
(* equal values from different ones, and its class what a conversion or a  *)
(* rule makes of it.  Confidences are percentages.                         *)
(***************************************************************************)
EXTENDS Integers, Sequences, FiniteSets, FiniteSetsExt

CONSTANTS
    Schema,            \* document_types.field_schema: type -> name -> field type
    Threshold,         \* document_types.auto_process_threshold
    Texts,             \* the raw values documents contain
    Numeric,           \* those strconv.ParseFloat accepts
    NumberText,        \* ... and what the number prints as
    ItemsText,         \* raw value -> what its comma-separated items print as
    Negative,          \* the texts of numbers below zero
    NotFinite,         \* the texts of NaN and the infinities
    DateFormatted,     \* those of the form YYYY-MM-DD
    MatchingLabels     \* name -> the labels the name, with spaces, contains

DocumentTypes == DOMAIN Schema

FieldNames == UNION {DOMAIN Schema[type] : type \in DocumentTypes}

ASSUME FieldAssumption ==
    /\ "" \notin Texts
    /\ "unknown" \notin DocumentTypes
    /\ Numeric \cup DateFormatted \subseteq Texts
    /\ NumberText \in [Numeric -> Texts]
    /\ ItemsText \in [Texts -> Texts]
    /\ \A type \in DocumentTypes :
          /\ Threshold[type] \in 0..100
          /\ DOMAIN Schema[type] # {}
          /\ \A name \in DOMAIN Schema[type] :
                Schema[type][name] \in {"string", "number", "date", "array"}

Value == [json : {"null", "string", "number", "array"}, text : Texts \cup {""}]

Null == [json |-> "null", text |-> ""]

Field == [value : Value, confidence : 0..100]

\* A field the schema expects and the text does not have
Missing == [value |-> Null, confidence |-> 0]

---------------------------------------------------------------------------
(* stub.go *)

Classified(type, confidence) == [type |-> type, confidence |-> confidence]

\* words: the document types a keyword of which the text contains
StubClassify(words) ==
    IF "invoice" \in words THEN Classified("invoice", 95)
    ELSE IF "receipt" \in words THEN Classified("receipt", 95)
    ELSE IF "cv" \in words THEN Classified("cv", 90)
    ELSE Classified("unknown", 20)

\* The last line with a label gives its value.
ParseLabelledLines(lines) ==
    LET kept == {i \in DOMAIN lines : lines[i].label # "" /\ lines[i].value # ""}
    IN  [label \in {lines[i].label : i \in kept} |->
            lines[Max({i \in kept : lines[i].label = label})].value]

AsRead(json, text, confidence) ==
    [value |-> [json |-> json, text |-> text], confidence |-> confidence]

ConvertField(raw, fieldType) ==
    CASE fieldType = "number" ->
            IF raw \in Numeric THEN AsRead("number", NumberText[raw], 90)
            ELSE AsRead("string", raw, 50)
      [] fieldType = "array" -> AsRead("array", ItemsText[raw], 90)
      [] OTHER -> AsRead("string", raw, 90)

\* For each field, any of the labels of the text that its name contains.
StubExtractions(lines, schema) ==
    LET labels == ParseLabelledLines(lines)
        matching(name) == MatchingLabels[name] \cap DOMAIN labels
        found == {name \in DOMAIN schema : matching(name) # {}}
        choices == {choice \in [found -> DOMAIN labels] :
                       \A name \in found : choice[name] \in matching(name)}
    IN  {[name \in DOMAIN schema |->
             IF name \in found THEN ConvertField(labels[choice[name]], schema[name])
             ELSE Missing] : choice \in choices}

---------------------------------------------------------------------------
(* anthropic.go: what is made of the input of the model's tool call *)

Clamp01(confidence) ==
    IF confidence < 0 THEN 0 ELSE IF confidence > 100 THEN 100 ELSE confidence

\* Any type but those of the enumeration is unknown.
AnthropicClassify(answer) ==
    Classified(IF answer.type \in DocumentTypes THEN answer.type ELSE "unknown",
               Clamp01(answer.confidence))

\* Mutant of AnthropicExtract: the fields of the answer, whatever the
\* schema asked for.
AnthropicExtractUnfiltered(answer, schema) ==
    [name \in DOMAIN answer |->
        [value |-> answer[name].value, confidence |-> Clamp01(answer[name].confidence)]]

\* Exactly the fields of the schema, those the answer lacks as missing.
AnthropicExtract(answer, schema) ==
    [name \in DOMAIN schema |->
        IF name \in DOMAIN answer
        THEN [value |-> answer[name].value, confidence |-> Clamp01(answer[name].confidence)]
        ELSE Missing]

---------------------------------------------------------------------------
(* validation.go *)

Violation(rule, names) == {[rule |-> rule, field |-> name] : name \in names}

\* Mutant of Validate: a number may have any sign.
ValidateSignless(schema, values) ==
    LET present == {name \in DOMAIN schema \cap DOMAIN values : values[name].json # "null"}
        ofType(fieldType) == {name \in present : schema[name] = fieldType}
    IN  Violation("field_required", DOMAIN schema \ present)
        \cup Violation("field_numeric",
                {name \in ofType("number") : values[name].json # "number"})
        \cup Violation("field_date_format",
                {name \in ofType("date") :
                    values[name].json # "string" \/ values[name].text \notin DateFormatted})

\* NaN is not below zero.
Validate(schema, values) ==
    LET present == {name \in DOMAIN schema \cap DOMAIN values : values[name].json # "null"}
        ofType(fieldType) == {name \in present : schema[name] = fieldType}
    IN  Violation("field_required", DOMAIN schema \ present)
        \cup Violation("field_numeric",
                {name \in ofType("number") : values[name].json # "number"})
        \cup Violation("field_numeric_range",
                {name \in ofType("number") :
                    values[name].json = "number" /\ values[name].text \in Negative})
        \cup Violation("field_date_format",
                {name \in ofType("date") :
                    values[name].json # "string" \/ values[name].text \notin DateFormatted})

---------------------------------------------------------------------------
(* runner.go and extracted_fields.go *)

ValuesOf(fields) == [name \in DOMAIN fields |-> fields[name].value]

\* keyFieldsHash returns ok.
Complete(fields) == \A name \in DOMAIN fields : fields[name].value.json # "null"

\* SHA-256 of the "name=value" lines in the order of the names
KeyFieldsHash(fields) == [name \in DOMAIN fields |-> fields[name].value.text]

\* json.Marshal refuses NaN and the infinities.
Storable(fields) ==
    \A name \in DOMAIN fields :
        ~(fields[name].value.json = "number" /\ fields[name].value.text \in NotFinite)

\* A sum of floats in the order of a map: where the average is exactly the
\* threshold, rounding decides.
AtLeast(sum, bound) ==
    IF sum > bound THEN {TRUE} ELSE IF sum < bound THEN {FALSE} ELSE BOOLEAN

ConfidenceSum(confidence, fields) ==
    confidence + MapThenSumSet(LAMBDA name : fields[name].confidence, DOMAIN fields)

\* Mutant of ConfidenceGate: the sum is divided by the number of fields.
ConfidenceGateUnderCounted(type, confidence, fields) ==
    AtLeast(ConfidenceSum(confidence, fields), Threshold[type] * Cardinality(DOMAIN fields))

\* Does the average of the confidences of the classification and of every
\* field reach the threshold of the type?
ConfidenceGate(type, confidence, fields) ==
    AtLeast(ConfidenceSum(confidence, fields),
            Threshold[type] * (Cardinality(DOMAIN fields) + 1))
=============================================================================
