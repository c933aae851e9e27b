------------------------------- MODULE MCMqtt -------------------------------
(* The MQTT transport and broker for TLC: one topic of two levels, a filter   *)
(* with a wildcard that matches it and one that does not.                    *)
EXTENDS Mqtt

MCTopic == <<"plant", "temp">>
MCFilters == {<<"plant", "+">>, <<"plant">>}

\* Retained and acknowledged, clearing, and passing by.
MCForms == {[qos |-> 1, retain |-> TRUE, empty |-> FALSE],
            [qos |-> 0, retain |-> TRUE, empty |-> TRUE],
            [qos |-> 0, retain |-> FALSE, empty |-> FALSE]}
=============================================================================
