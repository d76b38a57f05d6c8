------------------------ MODULE MCSubredditWatchers ------------------------
(* SubredditWatchers with one subreddit and a few watchers.  Consumers,    *)
(* watchers and devices are interchangeable (safety runs only).            *)
EXTENDS SubredditWatchers, TLC

MCSymmetry ==
    Permutations(Consumers) \cup Permutations(Watchers) \cup Permutations(Devices)
=============================================================================
