---------------------------- MODULE MCNotifyPump ----------------------------
(* Small instances of the notification pump: a cron and the pumps left      *)
(* behind by deliveries.                                                    *)
EXTENDS NotifyPump

CONSTANTS m1, m2, m3, cron, p1
=============================================================================
