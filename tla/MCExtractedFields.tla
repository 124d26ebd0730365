------------------------- MODULE MCExtractedFields -------------------------
(* ExtractedFields on a small instance: the document types of              *)
(* db/migrations/000002_seed_dev_data.up.sql, two texts for the stub and *)
(* a few answers of Claude's.                                              *)
EXTENDS ExtractedFields, TLC

CONSTANTS w1, u1, invoice, letter

MCSchema ==
    [invoice |-> [vendor_name |-> "string", total_amount |-> "number", invoice_date |-> "date"],
     receipt |-> [merchant_name |-> "string", total_amount |-> "number", purchase_date |-> "date"],
     cv |-> [candidate_name |-> "string", email |-> "string", skills |-> "array"]]

MCThreshold == [invoice |-> 90, receipt |-> 90, cv |-> 85]

MCTexts == {"Acme", "12.50", "12.5", "-3", "NaN", "2026-01-31", "Ann", "a@b.c",
            "go, sql", "[go sql]", "typed"}

MCNumeric == {"12.50", "12.5", "-3", "NaN"}

MCNumberText ==
    [raw \in MCNumeric |-> IF raw = "12.50" THEN "12.5" ELSE raw]

MCItemsText == [raw \in MCTexts |-> IF raw = "go, sql" THEN "[go sql]" ELSE raw]

\* The labels of the texts below that a field's name contains
MCMatchingLabels ==
    [vendor_name |-> {"vendor", "vendor name"}, total_amount |-> {"total", "amount", "total amount"},
     invoice_date |-> {"date"}, merchant_name |-> {"merchant"}, purchase_date |-> {"date"},
     candidate_name |-> {"candidate"}, email |-> {"email"}, skills |-> {"skills"}]

Line(label, value) == [label |-> label, value |-> value]

\* invoice: three labels match total_amount, with values that cannot be
\* stored, are below zero, or pass; the last line with a label counts.
MCTextOf ==
    (invoice :> [words |-> {"invoice", "receipt"},
                 lines |-> <<Line("vendor", "Ann"), Line("vendor", "Acme"),
                             Line("total", "NaN"), Line("amount", "-3"),
                             Line("total amount", "12.50"), Line("date", "2026-01-31")>>])
    @@ (letter :> [words |-> {}, lines |-> << >>])

\* Claude is asked about one of the texts and fails on the other.
OnInvoice(answers) ==
    [content \in DOMAIN MCTextOf |-> IF content = invoice THEN answers ELSE {}]

Answer(type, confidence) == [type |-> type, confidence |-> confidence]

MCClassifyAnswers ==
    OnInvoice({Answer("invoice", 90), Answer("receipt", 120)})

Said(json, text, confidence) ==
    [value |-> [json |-> json, text |-> text], confidence |-> confidence]

\* A complete invoice with a field nobody asked for; and fields that reach
\* the threshold exactly as an invoice and miss it as a receipt.
ExtractedInputs ==
    {[vendor_name |-> Said("string", "Acme", 100), total_amount |-> Said("number", "12.5", 150),
      invoice_date |-> Said("string", "2026-01-31", 100), email |-> Said("string", "a@b.c", 100)],
     [merchant_name |-> Said("string", "Acme", 100), vendor_name |-> Said("string", "Ann", 90),
      total_amount |-> Said("number", "12.5", 90), invoice_date |-> Said("string", "2026-01-31", 90),
      purchase_date |-> Said("string", "2026-01-31", 60)]}

MCExtractAnswers == OnInvoice(ExtractedInputs)

\* Every key an extraction can have
MCKeys ==
    LET extracted ==
            {AnthropicExtract(answer, MCSchema[type]) :
                answer \in ExtractedInputs, type \in DOMAIN MCSchema}
            \cup UNION {StubExtractions(MCTextOf[content].lines, MCSchema[type]) :
                          content \in DOMAIN MCTextOf, type \in DOMAIN MCSchema}
    IN  {KeyFieldsHash(fields) : fields \in {f \in extracted : Complete(f)}}

MCEdits == {[name |-> "total_amount", text |-> "typed"]}

MCApiForms ==
    {[total_amount |-> Said("number", "-3", 100), notes |-> Said("string", "typed", 100)]}
=============================================================================
