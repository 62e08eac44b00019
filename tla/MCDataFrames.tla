---------------------------- MODULE MCDataFrames ----------------------------
(* A session whose counters cross 2^16 in steps of at most the gap, and a  *)
(* short buffer of commands that fills within a few downlinks.             *)
EXTENDS DataFrames

MCFcnts == {0, 1, 16384, 32767, 49150, 65533, 65536}

MCLoads == {<<"NONE", "NONE">>, <<"DUTY_CYCLE_ANS", "NONE">>,
            <<"RX_TIMING_SETUP_ANS", "NONE">>,
            <<"DEV_STATUS_ANS", "DL_CHANNEL_ANS">>}
=============================================================================
