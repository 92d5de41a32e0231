---------------------------- MODULE MCExecResults ----------------------------
EXTENDS ExecResults

MCBatches == {<<"fails">>, <<"insert", "insert">>, <<"select", "insert">>,
              <<"insert", "fails", "insert">>}
==============================================================================
