----------------------------- MODULE CsvImport -----------------------------
(***************************************************************************)
(* parse_transaction_csv: from the document a client posts to one candidate*)
(* per non-blank row, or to a refusal of the document as a whole.  What    *)
(* csv.DictReader does with a line, and what TransactionInput accepts, is  *)
(* part of the model; texts stand for cells of the file.                   *)
(***************************************************************************)
EXTENDS LedgerData

CONSTANTS
  MaxBytes, MaxRows,  \* MAX_CSV_BYTES and MAX_CSV_ROWS
  Strip,              \* [texts -> texts]: str.strip, onto NoName for a blank cell
  Amounts,            \* [texts -> Int]: what Decimal reads, within digits and places
  Dates,              \* [texts -> Int]: what reads as a date and time with an offset
  Torn,               \* a cell whose quoting csv.reader(strict=True) rejects
  NoTransaction       \* the new_transaction of a row that was not accepted

ASSUME BlankAssumption == Strip[NoName] = NoName /\ Strip[Torn] # NoName
ASSUME LimitsAssumption == MaxBytes \in Nat /\ MaxRows \in Nat

Required == {"external_id", "transaction_type", "occurred_at"}
Allowed  == Required \cup {"symbol", "quantity", "unit_price", "cash_amount", "fees"}

Texts(line) == {line[i] : i \in DOMAIN line}

(* _validate_headers, on a header line the reader could split.             *)
ValidHeader(header) ==
  LET names == {Strip[t] : t \in Texts(header)}
  IN  /\ header # <<>>
      /\ NoName \notin names
      /\ Cardinality(names) = Len(header)
      /\ Required \subseteq names
      /\ names \subseteq Allowed

(* _is_blank_row; the reader passes over an empty line itself.             *)
IsBlank(line) == \A t \in Texts(line) : Strip[t] = NoName

(* The lines that count, in the order of the file.                         *)
Filled(d) == {i \in DOMAIN d.lines : ~IsBlank(d.lines[i])}

(* DictReader and _string_value: the stripped text under a column, blank if*)
(* the header has no such column or the line ends before it.               *)
Cell(header, line, column) ==
  LET at == {i \in DOMAIN header \cap DOMAIN line : Strip[header[i]] = column}
  IN  IF at = {} THEN NoName ELSE Strip[line[CHOOSE i \in at : TRUE]]

(* TransactionInput: an amount is absent, or a number above zero; fees may *)
(* be zero and are left out when blank.                                    *)
Amount(text)   == text = NoName \/ (text \in DOMAIN Amounts /\ Amounts[text] > 0)
Fees(text)     == text = NoName \/ (text \in DOMAIN Amounts /\ Amounts[text] >= 0)
IsTrade(type)  == type \in {"BUY", "SELL"}
IsCash(type)   == type \in {"DEPOSIT", "WITHDRAWAL"}

(* TransactionInput.model_validate, with payload_matches_transaction_type. *)
Accepts(header, line) ==
  LET of(column) == Cell(header, line, column)
      given(columns) == {c \in columns : of(c) # NoName}
      trade == {"symbol", "quantity", "unit_price"}
  IN  /\ of("external_id") # NoName
      /\ of("occurred_at") \in DOMAIN Dates
      /\ \A c \in {"quantity", "unit_price", "cash_amount"} : Amount(of(c))
      /\ Fees(of("fees"))
      /\ \/ IsTrade(of("transaction_type"))
            /\ given(trade) = trade /\ given({"cash_amount"}) = {}
         \/ IsCash(of("transaction_type"))
            /\ given(trade) = {} /\ given({"cash_amount"}) # {}

(* _parse_row: a line longer than the header (extra_columns) or one that   *)
(* does not validate is a candidate without a transaction.  Prices, fees   *)
(* and the direction of cash are not kept in LedgerData.                   *)
NewTransaction(d, line) ==
  LET of(column) == Cell(d.header, line, column)
      amount(column) == IF of(column) = NoName THEN 0 ELSE Amounts[of(column)]
  IN  IF Len(line) > Len(d.header) \/ ~Accepts(d.header, line)
      THEN NoTransaction
      ELSE [owner |-> d.owner, pf |-> d.pf, ext |-> of("external_id"),
            kind |-> IF IsTrade(of("transaction_type"))
                     THEN of("transaction_type") ELSE "CASH",
            sym |-> of("symbol"), qty |-> amount("quantity"),
            cash |-> amount("cash_amount"), at |-> Dates[of("occurred_at")],
            exact |-> TRUE]

(* The documents refused with TransactionImportFormatError. The reader     *)
(* stops at the first bad line, but nothing tells which one it was.        *)
Refused(d) ==
  \/ d.size > MaxBytes \/ ~d.utf8 \/ d.nul
  \/ ~ValidHeader(d.header)
  \/ \E i \in DOMAIN d.lines : Torn \in Texts(d.lines[i])
  \/ Cardinality(Filled(d)) > MaxRows
  \/ Filled(d) = {}

(* reader.fieldnames is read outside the try block: a header line that     *)
(* csv.reader rejects leaves the parser as csv.Error.                      *)
Escapes(d) == d.size <= MaxBytes /\ d.utf8 /\ ~d.nul /\ Torn \in Texts(d.header)
=============================================================================
