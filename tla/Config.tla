-------------------------------- MODULE Config --------------------------------
(***************************************************************************)
(* Config::readConfig, over what it finds in the file: no JSON at all, an  *)
(* object without the key, another value under the key, or an array of     *)
(* entries.  ArrayParser is a GenericFactory of ConfigItems, for which the *)
(* application registers one creator.                                      *)
(***************************************************************************)
EXTENDS Naturals, Sequences

(* An entry of the array.  Its item's init() gets one key, of one type, as *)
(* optional or not.  The creator makes an item, knows none, or throws, as  *)
(* create() does if none is registered.                                    *)
Entry == [object   : BOOLEAN,
          enabled  : {"absent", "true", "false", "other"},
          create   : {"item", "null", "throws"},
          optional : BOOLEAN,
          value    : {"absent", "typed", "other"}]

File(Entries, max) ==
  [is : {"text", "no_key", "no_array"}, entries : {<<>>}]
    \cup [is : {"array"}, entries : UNION {[1..n -> Entries] : n \in 0..max}]

NoFile == [is |-> "none", entries |-> <<>>]

(* ConfigItem::isEnabled throws on an "enabled" that is no bool.           *)
IsEnabled(e) ==
  CASE e.enabled \in {"absent", "true"} -> "yes"
    [] e.enabled = "false" -> "no"
    [] e.enabled = "other" -> "throws"

(* ConfigItem::get<T, optional>                                            *)
Get(e) ==
  IF (e.optional /\ e.value = "absent") \/ e.value = "typed" THEN "ok" ELSE "throws"

(* The body of parseArray's loop.                                          *)
Parse(e) ==
  CASE ~e.object \/ IsEnabled(e) = "throws" -> "fail"
    [] e.object /\ IsEnabled(e) = "no" -> "skip"
    [] e.object /\ IsEnabled(e) = "yes" ->
         CASE e.create = "null" -> "skip"
           [] e.create = "throws" -> "fail"
           [] e.create = "item" -> IF Get(e) = "ok" THEN "add" ELSE "fail"

(* A mutant of the next definition: an item that fails to init is skipped. *)
ParseArraySkips(entries) ==
  [ok |-> TRUE, items |-> SelectSeq(entries, LAMBDA e : Parse(e) = "add")]

(* ArrayParser::parseArray returns at the first entry that fails, and      *)
(* leaves the items before it in the result.                               *)
ParseArray(entries) ==
  LET parsed[n \in 0..Len(entries)] ==
        IF n = 0 THEN [ok |-> TRUE, items |-> <<>>]
        ELSE IF ~parsed[n - 1].ok \/ Parse(entries[n]) = "skip" THEN parsed[n - 1]
        ELSE IF Parse(entries[n]) = "fail" THEN [parsed[n - 1] EXCEPT !.ok = FALSE]
        ELSE [parsed[n - 1] EXCEPT !.items = Append(@, entries[n])]
  IN  parsed[Len(entries)]

(* Config::readConfig                                                      *)
ReadFile(file) ==
  IF file.is = "array" THEN ParseArray(file.entries)
  ELSE [ok |-> FALSE, items |-> <<>>]
=============================================================================
