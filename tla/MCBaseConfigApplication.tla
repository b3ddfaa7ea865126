----------------------- MODULE MCBaseConfigApplication -----------------------
(* Entries that go through each line of the parser, and two good ones.     *)
EXTENDS BaseConfigApplication

Plain == [object |-> TRUE, enabled |-> "absent", create |-> "item",
          optional |-> FALSE, value |-> "typed"]

MCEntries ==
  {Plain,
   [Plain EXCEPT !.enabled = "true", !.optional = TRUE, !.value = "absent"],
   [Plain EXCEPT !.object = FALSE],
   [Plain EXCEPT !.enabled = "other"],
   [Plain EXCEPT !.enabled = "false", !.create = "throws"],
   [Plain EXCEPT !.create = "null"],
   [Plain EXCEPT !.create = "throws"],
   [Plain EXCEPT !.value = "absent"],
   [Plain EXCEPT !.optional = TRUE, !.value = "other"]}
=============================================================================
