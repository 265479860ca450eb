--------------------------- MODULE Configuration ---------------------------
(***************************************************************************)
(* The Origin allowlist the server parses from its environment at startup, *)
(* and the check of a request's Origin header against it.                  *)
(*                                                                         *)
(* A text is a sequence of characters.  "v6" stands for a bracketed IPv6   *)
(* literal in canonical form, "8" for a digit, "x" for a small letter or   *)
(* the underscore, "X" for a capital, "?" for what starts a query or a     *)
(* fragment.                                                               *)
(***************************************************************************)
EXTENDS Integers, SequencesExt

LabelChars == {"x", "8", "-"}

\* String.prototype.split, trim, toLowerCase.
Split(parts, c, ch) ==
  IF c = ch THEN Append(parts, <<>>) ELSE [parts EXCEPT ![Len(parts)] = Append(@, c)]

SplitAt(s, ch) ==
  LET parts[k \in 0 .. Len(s)] == IF k = 0 THEN << <<>> >> ELSE Split(parts[k - 1], s[k], ch)
  IN  parts[Len(s)]

trimmed(s) ==
  LET kept == {i \in DOMAIN s : s[i] # " "}
  IN  IF kept = {} THEN <<>> ELSE SubSeq(s, Min(kept), Max(kept))

lowered(s) == [i \in DOMAIN s |-> IF s[i] = "X" THEN "x" ELSE s[i]]

Includes(s, S) == \E i \in DOMAIN s : s[i] \in S

-----------------------------------------------------------------------------
(* parseAllowedOrigins. *)

Invalid == <<"invalid">>

\* new URL("http://" + item).hostname, for an item without "/", space and "*":
\* a port is taken off; a name that ends in a number is an IPv4 address, and is
\* written in four parts.
HostPart(item) ==
  LET ends == {i \in DOMAIN item : item[i] \in {":", "?"}} IN
    IF ends = {} THEN item
    ELSE LET at == Min(ends)
             query == {i \in DOMAIN item : item[i] = "?"}
             port == SubSeq(item, at + 1, IF query = {} THEN Len(item) ELSE Min(query) - 1)
         IN  IF \A i \in DOMAIN port : port[i] = "8" THEN SubSeq(item, 1, at - 1) ELSE <<>>

NumericLabel(label) == label # <<>> /\ \A i \in DOMAIN label : label[i] = "8"

EndsInNumber(host) ==
  LET labels == SplitAt(host, ".")
      last == IF Last(labels) = <<>> /\ Len(labels) > 1 THEN labels[Len(labels) - 1] ELSE Last(labels)
  IN  NumericLabel(last)

IsIPv4(host) ==
  LET labels == SplitAt(host, ".")
  IN  Len(labels) = 4 /\ \A i \in DOMAIN labels : NumericLabel(labels[i]) /\ Len(labels[i]) <= 2

\* A bracketed literal must be all of the host.
UrlHostname(item) ==
  LET host == HostPart(item) IN
    IF \/ host = <<>>
       \/ Includes(host, {"v6"}) /\ host # <<"v6">>
       \/ EndsInNumber(host) /\ ~IsIPv4(host)
      THEN Invalid ELSE host

\* Mutant: labels are not looked at.
WellFormedLabelsUnchecked(item) == TRUE

\* /^[a-z0-9_]([a-z0-9_-]*[a-z0-9_])?$/ for every label of a name.
WellFormedLabels(item) ==
  item = <<"v6">> \/
  \A k \in DOMAIN SplitAt(item, ".") :
    LET label == SplitAt(item, ".")[k] IN
      /\ label # <<>> /\ \A i \in DOMAIN label : label[i] \in LabelChars
      /\ label[1] # "-" /\ Last(label) # "-"

ItemOk(item) ==
  /\ item # <<>>
  /\ ~Includes(item, {"/", "*"} \cup {" "})
  /\ UrlHostname(item) = item
  /\ WellFormedLabels(item)

Localhost == << <<"localhost">>, <<"127.0.0.1">>, <<"[::1]">> >>

Refused == << >>

Items(raw) == LET parts == SplitAt(raw, ",") IN [k \in DOMAIN parts |-> lowered(trimmed(parts[k]))]

\* Unset and blank are the same; the list replaces the default.
parseAllowedOrigins(raw) ==
  IF trimmed(raw) = <<>> THEN Localhost
  ELSE IF \A k \in DOMAIN Items(raw) : ItemOk(Items(raw)[k]) THEN Items(raw)
  ELSE Refused

\* The SDK compares the hostname of an Origin header, as a URL has it, verbatim.
validateOriginHeader(hostname, allowed) == \E k \in DOMAIN allowed : allowed[k] = hostname

-----------------------------------------------------------------------------
\* A host name by its grammar, a character at a time.
Hostname(item) ==
  \/ item = <<"v6">>
  \/ LET n == Len(item)
         dots == {i \in 1 .. n : item[i] = "."}
         words == {i \in 1 .. n : item[i] \in {"x", "-"}}
     IN  /\ n > 0
         /\ \A i \in 1 .. n : item[i] \in LabelChars \cup {"."}
         /\ \A i \in {1, n} : item[i] \in {"x", "8"}
         /\ \A i \in dots : item[i - 1] \in {"x", "8"} /\ item[i + 1] \in {"x", "8"}
         /\ \/ \E i \in words : \A j \in dots : j < i
            \/ /\ words = {} /\ Cardinality(dots) = 3
               /\ \A i \in 1 .. n - 2 : \E j \in i .. i + 2 : j \in dots

\* The server starts with exactly the host names that were written, or with the
\* SDK's three when nothing was, or not at all: no entry that could never match
\* an Origin is kept in silence, no good one is refused, and no default is let
\* in beside a configured list (parseAllowedOrigins).
OriginsExact(raw) ==
  LET allowed == parseAllowedOrigins(raw)
      written == {Items(raw)[k] : k \in DOMAIN Items(raw)}
      Default == {Localhost[k] : k \in DOMAIN Localhost}
  IN  IF \A i \in DOMAIN raw : raw[i] = " "
        THEN \A h \in Default \cup written : validateOriginHeader(h, allowed) <=> h \in Default
      ELSE /\ allowed # Refused <=> \A item \in written : Hostname(item)
           /\ \A h \in Default \cup written :
                validateOriginHeader(h, allowed) <=> h \in written /\ allowed # Refused
=============================================================================
