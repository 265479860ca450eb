----------------------------- MODULE AuditText -----------------------------
(***************************************************************************)
(* A governed string, from a tool's argument (a persona's purpose, say) to *)
(* its column, to the trigger's preimage and to the verifier's.  A string  *)
(* is a sequence of classes of characters:                                 *)
(*   space      U+0020                                                     *)
(*   blank      other white space: NBSP, U+2003                            *)
(*   control    category Cc that JS trims too: a line feed                 *)
(*   delete     category Cc that JS keeps: DEL, C1                         *)
(*   surrogate  an unpaired surrogate code unit                            *)
(*   astral     a character of two UTF-16 code units                       *)
(*   e, acute   a letter and a combining mark that NFC composes to e-acute *)
(*   U+FFFD     what an encoder writes for an unpaired surrogate           *)
(***************************************************************************)
EXTENDS Integers, SequencesExt

CONSTANTS
  MaxFieldLen,   \* MAX_FIELD_LEN, in UTF-16 code units
  ColumnLength   \* VARCHAR(n) of personas.purpose, in characters

\* 1000 characters of two code units at most, and 8192 code units.
ASSUME AuditTextAssumption ==
  MaxFieldLen \in Nat /\ ColumnLength \in Nat /\ 2 * ColumnLength <= MaxFieldLen

Characters ==
  {"space", "blank", "control", "delete", "surrogate", "astral", "e", "acute", "U+FFFD"}

CategoryCc == {"control", "delete"}

Has(s, S) == \E i \in DOMAIN s : s[i] \in S

Stripped(s, S) ==
  LET kept == {i \in DOMAIN s : s[i] \notin S}
  IN  IF kept = {} THEN <<>> ELSE SubSeq(s, Min(kept), Max(kept))

\* JS String.prototype.trim.
trim(s) == Stripped(s, {"space", "blank", "control"})

Compose(acc, ch) ==
  IF ch = "acute" /\ acc # <<>> /\ Last(acc) = "e"
    THEN Append(Front(acc), "e-acute") ELSE Append(acc, ch)

NFC(s) ==
  LET composed[k \in 0 .. Len(s)] == IF k = 0 THEN <<>> ELSE Compose(composed[k - 1], s[k])
  IN  composed[Len(s)]

CodeUnits(s) == Len(s) + Cardinality({i \in DOMAIN s : s[i] = "astral"})

-----------------------------------------------------------------------------
\* arg-guards.ts: accepts s as a governed string.
nonEmptyStringArg(s) ==
  /\ trim(s) # <<>>
  /\ ~Has(s, CategoryCc)
  /\ ~Has(s, {"surrogate"})

\* node-pg encodes parameters as UTF-8.
OnTheWire(s) == [i \in DOMAIN s |-> IF s[i] = "surrogate" THEN "U+FFFD" ELSE s[i]]

FitsColumn(s) == Len(s) <= ColumnLength

\* The trigger: btrim(normalize(x, NFC)).
norm(s) == Stripped(NFC(s), {"space"})

-----------------------------------------------------------------------------
(* verify-core.ts. *)

Unnormalizable == <<"error">>

\* Mutant: .trim() where only U+0020 may go.
normalizeStringTrimmingAll(s) ==
  LET n == trim(NFC(s)) IN
    IF Has(s, CategoryCc \cup {"surrogate"}) \/ CodeUnits(n) > MaxFieldLen THEN Unnormalizable ELSE n

normalizeString(s) ==
  LET n == Stripped(NFC(s), {"space"}) IN
    IF Has(s, CategoryCc \cup {"surrogate"}) \/ CodeUnits(n) > MaxFieldLen THEN Unnormalizable ELSE n

-----------------------------------------------------------------------------
\* A string a guard admits is stored as it is and hashes on verification to what
\* the trigger hashed, and says something; a string stored past the guards is
\* hashed alike or cannot be hashed, so that it is never taken for a tampered
\* row (arg-guards.ts, normalizeString, the trigger's norm).
HashedAlike(s) ==
  LET stored == OnTheWire(s) IN
    FitsColumn(stored) =>
      /\ normalizeString(stored) \in {Unnormalizable, norm(stored)}
      /\ nonEmptyStringArg(s) =>
           /\ stored = s
           /\ normalizeString(stored) = norm(s)
           /\ norm(s) # <<>>
=============================================================================
