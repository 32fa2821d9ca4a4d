-------------------------------- MODULE Terms --------------------------------
(***************************************************************************)
(* packages/client/src/Token.ts and license/LogionClassification.ts: what  *)
(* a collection item may carry, that is checked before it is published for *)
(* good: a token, by its type, and the rights that are transferred.        *)
(*                                                                         *)
(* A token type is the sequence of the words of its name, so that          *)
(* startsWith and includes keep their meaning; a token ID is what the      *)
(* checks tell apart of the text or of the JSON it is.                     *)
(***************************************************************************)
EXTENDS Naturals, FiniteSets, Sequences, SequencesExt

Erc == {"erc20", "erc721", "erc1155"}

TokenTypes ==
  {<<chain, erc>> : chain \in {"ethereum", "goerli", "polygon"}, erc \in Erc}
    \union {<<"polygon", "mumbai", erc>> : erc \in Erc}
    \union {<<"multiversx", "devnet", "esdt">>, <<"multiversx", "testnet", "esdt">>, <<"multiversx", "esdt">>}
    \union {<<"astar", "psp34">>, <<"astar", "shiden", "psp34">>, <<"astar", "shibuya", "psp34">>}
    \union {<<"singular", "kusama">>, <<"owner">>}

NetworkTypes == {"ETHEREUM", "POLKADOT", "MULTIVERSX"}

(* What a text may be besides JSON: the formats of addresses and of tokens. *)
Formats == {"ethereum address", "bech32 address", "account", "kusama id", "esdt id", "other"}

(* The fields of a PSP34 id, and their values; a hexadecimal text has      *)
(* digits.                                                                 *)
IntegerKeys == {"U8", "U16", "U32", "U64", "U128"}
Psp34Values == {"number", "digits", "hex", "word"}
Psp34Ids == UNION {[keys -> Psp34Values] : keys \in {{}, {"U8"}, {"U128"}, {"Bytes"}, {"other"}, {"U8", "Bytes"}}}

(* A field of a JSON object: not there (or empty), a text, another scalar. *)
Fields == {"none", "text", "scalar"}
NoJson == [is |-> "text", format |-> "other", contract |-> "none", id |-> "none", fields |-> <<>>]

JsonObject(contract, id, fields) ==
  [is |-> "object", format |-> "other", contract |-> contract, id |-> id, fields |-> fields]

TokenIds ==
  {[NoJson EXCEPT !.format = f] : f \in Formats}
    \union {[NoJson EXCEPT !.is = "null"]}
    \union {[NoJson EXCEPT !.is = "scalar", !.format = f] : f \in {"kusama id", "other"}}
    \union {JsonObject(c, i, <<>>) : c \in Fields, i \in Fields}
    \union {JsonObject(c, "object", f) : c \in Fields, f \in Psp34Ids}

(* The codes of transferred rights. *)
Usages == {"PER-PRIV", "PER-PUB", "COM-NOMOD", "COM-MOD"}
RightCodes == Usages \union {"EX", "NOEX", "WW", "REG", "NOTIME", "TIME"}

(* What lists of codes hold besides rights: the code of a country, the     *)
(* empty code, one that no table has, and the name of a property that      *)
(* every object inherits, thus the tables too. No list has more than two.  *)
Lists(codes) == UNION {[1..n -> codes] : n \in 0..2}

(* transferredRights, its rights apart from its other codes, the regional  *)
(* limit, and the expiration date; what is not given is like what is empty.*)
Classifications ==
  [rights : SUBSET RightCodes,
   others : Lists({"", "unknown", "inherited"}),
   limit : Lists({"country", "", "unknown", "inherited"}),
   expiration : {"none", "date", "invalid"}]

VARIABLES
  subject,  \* what was checked last
  verdict   \* "valid", "invalid", "unsupported", or "throws" where no error is foreseen

termsVars == <<subject, verdict>>

-----------------------------------------------------------------------------
(* Token.ts *)

StartsWith(type, word) == Head(type) = word
Includes(type, word) == word \in Range(type)

IsTokenCompatibleWith(type, network) ==
  \/ type = <<"owner">>
  \/ network = "ETHEREUM" /\ \E chain \in {"ethereum", "goerli", "polygon"} : StartsWith(type, chain)
  \/ network = "MULTIVERSX" /\ StartsWith(type, "multiversx")
  \/ network = "POLKADOT" /\ (type = <<"singular", "kusama">> \/ StartsWith(type, "astar"))

IsErcNft(type) == Includes(type, "erc721") \/ Includes(type, "erc1155")

Verdict(valid) == IF valid THEN "valid" ELSE "invalid"

(* Reading a field of null throws, and nothing catches it here. *)
ValidateErcToken(id) ==
  IF id.is = "null" THEN "throws" ELSE Verdict(id.is # "text" /\ id.contract = "text")

IsAnyNumber(value) == value \in {"number", "digits", "hex"}

ValidatePsp34TokenId(id) ==
  Verdict(/\ id.is = "object"
          /\ id.contract = "text"
          /\ id.id = "object"
          /\ Cardinality(DOMAIN id.fields) = 1
          /\ \/ \E key \in IntegerKeys \intersect DOMAIN id.fields : IsAnyNumber(id.fields[key])
             \/ "Bytes" \in DOMAIN id.fields /\ id.fields["Bytes"] = "hex")

ValidateToken(type, id) ==
  IF IsErcNft(type) THEN
    IF ValidateErcToken(id) = "valid" THEN Verdict(id.id = "text") ELSE ValidateErcToken(id)
  ELSE IF Includes(type, "erc20") THEN ValidateErcToken(id)
  ELSE IF type = <<"owner">> THEN
    Verdict(id.format \in {"ethereum address", "bech32 address", "account"})
  ELSE IF type = <<"singular", "kusama">> THEN Verdict(id.format = "kusama id")
  ELSE IF StartsWith(type, "multiversx") THEN Verdict(id.format = "esdt id")
  ELSE IF Includes(type, "psp34") THEN ValidatePsp34TokenId(id)
  ELSE "unsupported"

-----------------------------------------------------------------------------
(* LogionClassification.checkValidity and its Validator. *)

(* Where a table is asked for the code and has nothing. *)
UnknownAt(codes) == {i \in DOMAIN codes : codes[i] \in {"", "unknown"}}

(* The unknown codes are joined to a text that must be empty; so is the    *)
(* text of one empty code.                                                 *)
NothingJoined(codes) == \A i \in UnknownAt(codes) : UnknownAt(codes) = {i} /\ codes[i] = ""

AllCodesValid(others) == NothingJoined(others)

AllCountryCodesValid(limit) == NothingJoined(limit)

OneOf(codes, rights) == Cardinality(codes \intersect rights) = 1

MutuallyExclusive(code1, code2, rights) == ~(code1 \in rights /\ code2 \in rights)

(* Mutant of CodePresentForCondition: the code may be without condition.   *)
ConditionNeedsCode(code, rights, condition) == condition => code \in rights

CodePresentForCondition(code, rights, condition) ==
  /\ ~(code \notin rights /\ condition)
  /\ ~(code \in rights /\ ~condition)

CheckValidity(c) ==
  Verdict(
    /\ AllCodesValid(c.others)
    /\ AllCountryCodesValid(c.limit)
    /\ OneOf(Usages, c.rights)
    /\ MutuallyExclusive("EX", "NOEX", c.rights)
    /\ MutuallyExclusive("REG", "WW", c.rights)
    /\ MutuallyExclusive("TIME", "NOTIME", c.rights)
    /\ CodePresentForCondition("TIME", c.rights, c.expiration # "none")
    /\ CodePresentForCondition("REG", c.rights, c.limit # <<>>)
    /\ c.expiration # "invalid"
    /\ ({"COM-NOMOD", "COM-MOD"} \intersect c.rights # {} =>
          OneOf({"REG", "WW"}, c.rights) /\ OneOf({"TIME", "NOTIME"}, c.rights)))

-----------------------------------------------------------------------------
NoSubject == [kind |-> "none"]

TermsInit == subject = NoSubject /\ verdict = "invalid"

CheckToken(type, id) ==
  /\ subject' = [kind |-> "token", type |-> type, id |-> id]
  /\ verdict' = ValidateToken(type, id)

CheckClassification(c) ==
  /\ subject' = [kind |-> "classification", terms |-> c]
  /\ verdict' = CheckValidity(c)

(* Each check stands alone: none follows another. *)
TermsNext ==
  /\ subject = NoSubject
  /\ \/ \E type \in TokenTypes, id \in TokenIds : CheckToken(type, id)
     \/ \E c \in Classifications : CheckClassification(c)

-----------------------------------------------------------------------------
(* What makes a token the owner of something: the network of its type is   *)
(* one, and its ID designates it there.                                    *)
Networks(type) == {network \in NetworkTypes : IsTokenCompatibleWith(type, network)}

Designates(type, id) ==
  LET contract == id.is = "object" /\ id.contract = "text" IN
  CASE Networks(type) = NetworkTypes -> id.format \in {"ethereum address", "bech32 address", "account"}
    [] Networks(type) = {"ETHEREUM"} -> contract /\ (Last(type) # "erc20" => id.id = "text")
    [] Networks(type) = {"MULTIVERSX"} -> id.format = "esdt id"
    [] type = <<"singular", "kusama">> -> id.format = "kusama id"
    [] OTHER -> /\ contract /\ id.id = "object"
                /\ \E key \in IntegerKeys \union {"Bytes"}, value \in Psp34Values :
                     /\ id.fields = [k \in {key} |-> value]
                     /\ value = "hex" \/ (key # "Bytes" /\ value # "word")

(* What one may do, where, and for how long; the unsaid is no limit, but   *)
(* commercial rights leave nothing unsaid.                                 *)
Answers ==
  {{usage} \union exclusive \union where \union when :
     usage \in Usages, exclusive \in {{}, {"EX"}, {"NOEX"}},
     where \in {{}, {"WW"}, {"REG"}}, when \in {{}, {"NOTIME"}, {"TIME"}}}

(* What may be in a list unseen: one empty code, and inherited names. *)
Unseen(codes) == \A i \in DOMAIN codes :
                   /\ codes[i] # "unknown"
                   /\ codes[i] = "" => \A j \in DOMAIN codes \ {i} : codes[j] # ""

Meaningful(c) ==
  /\ c.rights \in Answers
  /\ "REG" \in c.rights <=> c.limit # <<>>
  /\ c.expiration = IF "TIME" \in c.rights THEN "date" ELSE "none"
  /\ c.rights \intersect {"COM-MOD", "COM-NOMOD"} # {} =>
       c.rights \intersect {"WW", "REG"} # {} /\ c.rights \intersect {"TIME", "NOTIME"} # {}
  /\ Unseen(c.others) /\ Unseen(c.limit)

(* Of the tokens, those pass that designate something on the one network   *)
(* of their type; no type is left without a check, and a check throws only *)
(* where the ID of an ERC token is null.  Of the classifications, those    *)
(* pass that have one meaning: a usage, at most one answer to each other   *)
(* question, a limit and a date if and only if they are announced. Codes   *)
(* that are none are refused, but those the check does not see: so a limit *)
(* may be announced, and name no country.                                  *)
OnlySoundTermsPass ==
  CASE subject.kind = "token" ->
         /\ subject.type # <<"owner">> => Cardinality(Networks(subject.type)) = 1
         /\ verdict = "valid" <=> Designates(subject.type, subject.id)
         /\ verdict = "throws" <=> Last(subject.type) \in Erc /\ subject.id.is = "null"
         /\ verdict # "unsupported"
    [] subject.kind = "classification" -> verdict = "valid" <=> Meaningful(subject.terms)
    [] OTHER -> TRUE
=============================================================================
