------------------------------- MODULE MCInbox -------------------------------
(* InboxNotifications for one account.  The second message, when there are *)
(* comments, is a private one.                                             *)
EXTENDS InboxNotifications, TLC

MCPrivate == {2}
=============================================================================
