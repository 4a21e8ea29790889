---------------------------- MODULE MCFrontEnds ----------------------------
(* vfio-user: an admin queue of two entries and an I/O queue of three, with *)
(* the I/O completion ring in an area of its own.  vhost-user: the area of  *)
(* the rings between two others.  Transfers of one to four pages of two     *)
(* units, with the list of the further pages in page 2.                     *)
EXTENDS FrontEnds

MCDepth(x)  == IF x = 0 THEN 2 ELSE 3
MCCid(x)    == IF x = 0 THEN {1} ELSE {1, 2}
MCSqArea(x) == "sqs"
MCCqArea(x) == IF x = 0 THEN "sqs" ELSE "cqs"
MCTable     == <<"buf", "ring", "data">>
MCTransfers == [prp1 : {2, 3}, prp2 : {4}, list : {<<10, 6, 8>>}, len : 1..7]
=============================================================================
