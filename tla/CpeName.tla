-------------------------------- MODULE CpeName --------------------------------
(***************************************************************************)
(* CPE 2.3 names as sequences of characters: how they are split, how a      *)
(* version is quoted into one and read back (cve/cpe.go, cve/applies.go,    *)
(* lib/cpe.ts, and the builder's own copy in wappacvelyze-db/nvd.go).       *)
(***************************************************************************)
EXTENDS Integers, Sequences, SequencesExt

CONSTANTS Literals,  \* what the extension does not quote: letters, digits, "-", "." and "_"
          Reserved   \* what the command line quotes: a list of punctuation

Colon == ":"
Backslash == "\\"

ASSUME CharactersAssumption == Literals \cap Reserved = {} /\ {Colon, Backslash} \subseteq Reserved

FieldCount == 13
VersionField == 6   \* cpeVersionIndex, from 1

\* One character of splitCPE: a backslash quotes the next one, both are kept.
SplitAt(read, char) ==
  IF char = Colon /\ ~read.quoted
    THEN [read EXCEPT !.fields = Append(@, read.field), !.field = <<>>]
    ELSE [read EXCEPT !.field = Append(@, char), !.quoted = char = Backslash /\ ~read.quoted]

SplitCPE(name) ==
  LET read == FoldLeft(SplitAt, [fields |-> <<>>, field |-> <<>>, quoted |-> FALSE], name)
  IN Append(read.fields, read.field)

\* Definitions named Faulty... stand before the definitions they would replace: plausible
\* mistakes that the properties of Matching must notice.

FaultyEscape(version, quoted) ==
  FlattenSeq([i \in DOMAIN version |->
    IF version[i] \in quoted \ {Backslash} THEN <<Backslash, version[i]>> ELSE <<version[i]>>])

\* cpeEscaper and escapeCpeValue.
Escape(version, quoted) ==
  FlattenSeq([i \in DOMAIN version |->
    IF version[i] \in quoted THEN <<Backslash, version[i]>> ELSE <<version[i]>>])

\* A backslash gives way to the character after it.
Unquote(read, char) ==
  IF char = Backslash /\ ~read.quoted THEN [read EXCEPT !.quoted = TRUE]
                                      ELSE [text |-> Append(read.text, char), quoted |-> FALSE]
Read(field) == FoldLeft(Unquote, [text |-> <<>>, quoted |-> FALSE], field)

\* The clients' cpeUnescape replaces pairs, so a last backslash stays.
Unescape(field) ==
  LET read == Read(field) IN IF read.quoted THEN Append(read.text, Backslash) ELSE read.text

\* The builder drops it.
BuilderUnescape(field) == Read(field).text

Join(fields) ==
  FlattenSeq([i \in DOMAIN fields |-> IF i = 1 THEN fields[i] ELSE <<Colon>> \o fields[i]])

\* The name of one version of the product that `name` describes.
CPEWithVersion(name, version, quoted) ==
  Join([SplitCPE(name) EXCEPT ![VersionField] = Escape(version, quoted)])
================================================================================
