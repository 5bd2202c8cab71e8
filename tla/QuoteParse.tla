----------------------------- MODULE QuoteParse -----------------------------
(***************************************************************************)
(* Quote::parse and Quote::parse_hex (quote.rs): which bytes are a quote,  *)
(* and what is said of those that are not.                                 *)
(*                                                                         *)
(* A quote is a header, a report body of eight registers and report_data,  *)
(* the length of the signature section, and that section.  Reads are       *)
(* modelled by the bytes they need, the values read by what the parser     *)
(* tells apart.  The file a quote is read from may have been cut anywhere; *)
(* a step gives it one more hexadecimal digit, so every length occurs.     *)
(***************************************************************************)
EXTENDS Integers

CONSTANTS
  HeaderLen, OffMrtd, MeasurementLen, ReportDataLen,  \* quote.rs, in bytes
  SigLenWidth,  \* bytes of the signature_data_len field
  SigLens,      \* the declared lengths to be considered
  NarrowMax,    \* usize::MAX where usize is as wide as that field (wasm32)
  WideMax,      \* usize::MAX where it is wider; no length of SigLens is above NarrowMax
  MaxDigits     \* bound on the length of the text

VARIABLES
  quote,  \* what the whole file says: version, tee_type, signature_data_len
  stray,  \* the text holds a character that is no hexadecimal digit
  digits  \* how much of the text is there

vars == <<quote, stray, digits>>

Quote == [version : {"V4", "Other"}, tee : {"Tdx", "Other"}, sigLen : SigLens]

OffReportData == OffMrtd + 8 * MeasurementLen
OffSigLen     == HeaderLen + OffReportData + ReportDataLen
MinQuoteLen   == OffSigLen + SigLenWidth

-----------------------------------------------------------------------------
(***************************************************************************)
(* The answers of the parser.                                              *)
(***************************************************************************)
Refused(kind)         == [kind |-> kind, got |-> 0, need |-> 0]
TooShort(got, need)   == [kind |-> "TooShort", got |-> got, need |-> need]
Truncated(got, need)  == [kind |-> "SignatureTruncated", got |-> got, need |-> need]
Parsed                == Refused("Parsed")

\* Where each register, and then report_data, ends.
FieldEnds ==
  {HeaderLen + OffMrtd + (i + 1) * MeasurementLen : i \in 0 .. 7} \cup
  {HeaderLen + OffReportData + ReportDataLen}

Unread(got) == {end \in FieldEnds : got < end}

Overflow == -1

\* Mutant: the sum wraps where it does not fit.
Declared_Wraps(sigLen, usizeMax) == (MinQuoteLen + sigLen) % (usizeMax + 1)

\* The bytes a quote declares, or Overflow: checked_add in usize.
Declared(sigLen, usizeMax) ==
  IF MinQuoteLen + sigLen <= usizeMax THEN MinQuoteLen + sigLen ELSE Overflow

LongEnough(got) == got >= MinQuoteLen

\* Mutant: only a quote of exactly the declared length is taken.
Complete_Exact(got, declared) == got = declared

Complete(got, declared) == got >= declared

Parse(got, usizeMax) ==
  LET declared == Declared(quote.sigLen, usizeMax)
  IN  IF ~LongEnough(got)             THEN TooShort(got, MinQuoteLen)
      ELSE IF quote.version # "V4"    THEN Refused("UnsupportedVersion")
      ELSE IF quote.tee # "Tdx"       THEN Refused("NotTdx")
      ELSE IF declared = Overflow     THEN Refused("SignatureLengthImplausible")
      ELSE IF ~Complete(got, declared) THEN Truncated(got, declared)
      ELSE IF Unread(got) # {}        THEN TooShort(got, CHOOSE end \in Unread(got) : TRUE)
      ELSE Parsed

WholeBytes == digits % 2 = 0 /\ ~stray

ParseHex(usizeMax) ==
  IF WholeBytes THEN Parse(digits \div 2, usizeMax) ELSE Refused("InvalidHex")

-----------------------------------------------------------------------------
Init == quote \in Quote /\ stray \in BOOLEAN /\ digits = 0

Arrive == digits < MaxDigits /\ digits' = digits + 1 /\ UNCHANGED <<quote, stray>>

Next == Arrive

Spec == Init /\ [][Next]_vars

-----------------------------------------------------------------------------
(***************************************************************************)
(* Properties.                                                             *)
(***************************************************************************)
Usize == {NarrowMax, WideMax}

(***************************************************************************)
(* However wide usize is, a text is taken exactly when it spells, in whole *)
(* bytes, a version 4 quote of a TDX platform with all the bytes that quote*)
(* declares: a length that overflows on wasm32 is never taken for a short  *)
(* one, and malformed text is not read in part (quote.rs 322-339, 382-401).*)
(***************************************************************************)
WholeQuotesOnly ==
  \A w \in Usize :
    ParseHex(w).kind = "Parsed" <=>
      /\ quote.version = "V4" /\ quote.tee = "Tdx" /\ ~stray
      /\ \E bytes \in 0 .. MaxDigits : /\ bytes - MinQuoteLen >= quote.sigLen
                            /\ digits = 2 * bytes

(***************************************************************************)
(* What is said of a file that was cut is "too short" or "truncated", with *)
(* more bytes needed than there are, and nothing else: any other answer    *)
(* about the bytes stands however many more arrive (quote.rs 259-274,      *)
(* 305-307).                                                               *)
(***************************************************************************)
AsksForMore(answer) ==
  answer.kind \in {"TooShort", "SignatureTruncated"} /\ answer.need > answer.got

AnswerStands ==
  [][\A w \in Usize : LET before == Parse(digits \div 2, w)
                      IN  AsksForMore(before) \/ Parse(digits' \div 2, w) = before]_vars
=============================================================================
