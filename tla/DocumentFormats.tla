---------------------------- MODULE DocumentFormats ----------------------------
(***************************************************************************)
(* What the program concludes from a file: its format (downloader.py),     *)
(* the text it yields and how it was obtained (extractor.py, ocr.py), its  *)
(* type (classifier.py).  Pure functions.  A file is described by the      *)
(* signature at its head, by how much native text it has, and by the types *)
(* of document its words speak of.                                         *)
(***************************************************************************)
EXTENDS Integers

Absent == ""    \* NULL, or a header or name the site does not give

-----------------------------------------------------------------------------
(* Format                                                                  *)

\* MAGIC_SIGNATURES: format of a signature and its MIME type.
SignatureMime == [PDF |-> "application/pdf", ZIP |-> "application/zip",
                  DOC |-> "application/msword", HTML |-> "text/html"]

\* OOXML_TYPES, named by their extension.
OoxmlFormat == [docx |-> "DOCX", xlsx |-> "XLSX"]

\* DocumentFormat.parse of an extension.
FormatOfExtension(ext) ==
  LET known == [pdf |-> "PDF", doc |-> "DOC", docx |-> "DOCX", xls |-> "XLS",
                xlsx |-> "XLSX", csv |-> "CSV", txt |-> "TXT", html |-> "HTML", zip |-> "ZIP"]
  IN  IF ext \in DOMAIN known THEN known[ext] ELSE "UNKNOWN"

\* sniff_format: <<format, mime>>.  The bytes win; hints tell what kind of ZIP it
\* is, and what a file without a signature is.
SniffFormat(signature, declared, ext) ==
  IF signature = "ZIP" /\ declared \in DOMAIN OoxmlFormat THEN <<OoxmlFormat[declared], declared>>
  ELSE IF signature = "ZIP" /\ ext \in {"docx", "xlsx", "pptx"}
       THEN <<FormatOfExtension(ext), declared>>
  ELSE IF signature # Absent THEN <<signature, SignatureMime[signature]>>
  ELSE IF declared \in DOMAIN OoxmlFormat THEN <<OoxmlFormat[declared], declared>>
  ELSE IF declared = "text/csv" THEN <<"CSV", declared>>
  ELSE IF declared = "text/plain" THEN <<"TXT", declared>>
  ELSE IF ext # Absent THEN <<FormatOfExtension(ext), declared>>
  ELSE <<"UNKNOWN", declared>>

\* ALLOWED_CONTENT_TYPES.
AllowedTypes ==
  {"application/pdf", "application/msword", "docx", "xlsx", "application/vnd.ms-excel",
   "application/zip", "application/octet-stream", "text/plain", "text/csv", "text/html"}

\* download(): the type is the sniffed one, else the declared; without any it passes.
Storable(file, hint) ==
  LET sniffed == SniffFormat(file.signature, hint.declared, hint.ext)[2]
      mime    == IF sniffed # Absent THEN sniffed ELSE hint.declared
  IN  mime = Absent \/ mime \in AllowedTypes

StoredFormat(file, hint) == SniffFormat(file.signature, hint.declared, hint.ext)[1]

-----------------------------------------------------------------------------
(* Text                                                                    *)

\* Outcome of an extraction: a method, whether any characters came out, and the
\* confidence in per cent; "raises" when the handler throws.
Extracted(method, empty, confidence) ==
  [method |-> method, empty |-> empty, confidence |-> confidence]
Raises == Extracted("raises", TRUE, 0)

\* get_ocr_engine: the null engine when disabled or not installed.
OcrWorks(ocrEnabled, ocrAvailable) == ocrEnabled /\ ocrAvailable

\* _should_ocr and _run_ocr: wanted for less than MIN_CHARS_PER_PAGE a page; an engine
\* that fails counts as none.
OcrReads(file, ocrEnabled, ocrAvailable) ==
  OcrWorks(ocrEnabled, ocrAvailable) /\ file.native # "rich" /\ file.scan = "reads"

\* _extract_pdf.  native: "unreadable", "blank", "thin" (below MIN_CHARS_PER_PAGE) or
\* "rich".  A PDF that cannot be opened raises only when OCR is switched off.
ExtractPdf(file, ocrEnabled, ocrAvailable) ==
  IF file.native = "unreadable" /\ ~ocrEnabled THEN Raises
  ELSE IF OcrReads(file, ocrEnabled, ocrAvailable) THEN Extracted("OCR", FALSE, 80)
  ELSE Extracted("NATIVE_PDF", file.native \in {"unreadable", "blank"},
                 IF file.native = "rich" THEN 100 ELSE 40)

\* TextExtractor.extract: a format without a handler gives no text, and says so.
ExtractText(file, format, ocrEnabled, ocrAvailable) ==
  LET fmt == IF format = "UNKNOWN" THEN StoredFormat(file, [declared |-> Absent, ext |-> Absent])
             ELSE format
      blank == file.native \in {"unreadable", "blank"}
  IN  CASE fmt = "PDF"  -> ExtractPdf(file, ocrEnabled, ocrAvailable)
        [] fmt = "TXT"  -> Extracted("PLAIN_TEXT", blank, 100)
        [] fmt = "CSV"  -> IF file.native = "unreadable" THEN Raises
                           ELSE Extracted("SPREADSHEET", blank, 100)
        [] fmt = "HTML" -> Extracted("HTML_PARSE", blank, 90)
        [] fmt = "DOCX" -> IF file.native = "unreadable" THEN Raises
                           ELSE Extracted("PLAIN_TEXT", blank, 90)
        [] OTHER        -> Extracted("NONE", TRUE, 0)

-----------------------------------------------------------------------------
(* Type                                                                    *)

\* RULES, in order: a type and its weight in per cent.
TypeRules ==
  <<<<"ADDENDUM", 90>>, <<"AWARD_NOTICE", 90>>, <<"BRIEFING_NOTES", 85>>, <<"BID_FORM", 80>>,
    <<"SPECIFICATION", 80>>, <<"RFQ_DOCUMENT", 80>>, <<"TENDER_DOCUMENT", 75>>, <<"ADVERT", 70>>>>

TypesRuled == {TypeRules[i][1] : i \in DOMAIN TypeRules}

\* Weights of filename, title and text.
PlaceWeight == [filename |-> 100, title |-> 95, text |-> 80]

\* DocumentClassifier.classify: says[place] is the set of types the words of that
\* place speak of.  The first rule with the highest score wins.
Classify(says) ==
  LET Score(i, place) == IF TypeRules[i][1] \in says[place]
                         THEN TypeRules[i][2] * PlaceWeight[place] ELSE 0
      best(i)  == CHOOSE n \in {Score(i, p) : p \in DOMAIN PlaceWeight} :
                    \A p \in DOMAIN PlaceWeight : n >= Score(i, p)
      winners  == {i \in DOMAIN TypeRules :
                     best(i) > 0 /\ \A k \in DOMAIN TypeRules :
                                      best(k) < best(i) \/ (best(k) = best(i) /\ k >= i)}
  IN  IF winners = {} THEN "UNKNOWN" ELSE TypeRules[CHOOSE i \in winners : TRUE][1]
================================================================================
