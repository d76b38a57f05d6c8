--------------------------- MODULE MCUserWatchers ---------------------------
(* UserWatchers with two posts, of which the newer is made elsewhere.      *)
EXTENDS UserWatchers

MCPrivate   == {}
MCElsewhere == {2}
=============================================================================
