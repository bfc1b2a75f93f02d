--------------------------- MODULE MCSettingsFeed ---------------------------
EXTENDS SettingsFeed, TLC

CONSTANTS h1, h2

MCCommand == [h \in Handler |-> IF h = h1 THEN {"ignores", "abort"} ELSE {"yahoo"}]

=============================================================================
