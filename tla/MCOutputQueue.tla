--------------------------- MODULE MCOutputQueue ----------------------------
(* The output queue with two ordinary messages, one metric without a name *)
(* and one event of an unknown sourcetype.                                 *)
EXTENDS OutputQueue
CONSTANTS event1, event2, nameless, untyped

MCMessage == {event1, event2, nameless, untyped}
MCUnnamed == {nameless}
MCUntyped == {untyped}
MCNoLimit == -1
MCConfigs == {<<"mongo", 2>>, <<"mongo", MCNoLimit>>, <<"hec", MCNoLimit>>}
=============================================================================
