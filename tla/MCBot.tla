--------------------------------- MODULE MCBot ---------------------------------
EXTENDS Bot

MCUpdates == 1..2
MCOld == <<"x", "y">>
MCMessages == {[kind |-> "foreign", text |-> ""], [kind |-> "forget", text |-> ""],
               [kind |-> "note", text |-> "a"], [kind |-> "action", text |-> "b"],
               [kind |-> "chat", text |-> "a"], [kind |-> "chat", text |-> ""]}

=============================================================================
