-------------------------------- MODULE IDSpec --------------------------------
(* The derivation of workflow IDs (IDSpec, core/id.go).  Parameters are a        *)
(* function from keys to values; a value has a type, which %v does not show, and *)
(* a text, a sequence of words and separators.                                   *)
EXTENDS SequencesExt

CONSTANT Keys  \* all keys, in the order of sort.Strings

ASSUME IDSpecAssumption == Keys \in Seq(STRING) /\ IsInjective(Keys)

Identity(params, nonIdentity) == [k \in DOMAIN params \ nonIdentity |-> params[k]]

(* Mutant: the order of the map is kept.                                         *)
SortNot(keys) == keys
InOrder(s) ==
  \A i, j \in DOMAIN s, k, l \in DOMAIN Keys : s[i] = Keys[k] /\ s[j] = Keys[l] /\ i < j => k < l
SortStrings(keys) == CHOOSE s \in SetToSeqs(ToSet(keys)) : InOrder(s)

(* key=value&key=value, of the keys in the order they are found in.              *)
Serialize(params, keys) ==
  LET pair(i) == (IF i = 1 THEN <<>> ELSE <<"&">>) \o <<keys[i], "=">> \o params[keys[i]].text
  IN  FlattenSeq([i \in DOMAIN keys |-> pair(i)])

(* A Go map is ranged over in any order; SHA256 is taken for injective.  No ID   *)
(* can be derived from no identity parameter.                                    *)
NoID == <<>>
WorkflowIDs(prefix, identity) ==
  IF DOMAIN identity = {} THEN {NoID}
  ELSE {<<prefix, Serialize(identity, SortStrings(keys))>> : keys \in SetToSeqs(DOMAIN identity)}

(* Parameters that keep to strings and need no escaping.                         *)
Plain(params) ==
  \A k \in DOMAIN params : params[k].type = "string" /\ {"=", "&"} \cap ToSet(params[k].text) = {}
===============================================================================
