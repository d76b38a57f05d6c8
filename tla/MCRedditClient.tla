--------------------------- MODULE MCRedditClient ---------------------------
(* RedditClient with one consumer that polls inboxes and one for the rest. *)
EXTENDS RedditClient, TLC

CONSTANTS poller, other

MCServes == poller :> {"inbox"} @@ other :> {"live", "stuck", "subreddit"}
=============================================================================
