----------------------------- MODULE MCIdeDriver ------------------------------
(***************************************************************************)
(* A small instance of IdeDriver: two disks, every byte told apart by the  *)
(* request or the image it comes from and by its place there.              *)
(***************************************************************************)
EXTENDS IdeDriver

BothDrives == {0, 1}
NoByte == <<0, 0, -1>>
ByteTags == (0 .. Requests) \X BothDrives \X (-1 .. Sectors * SectorBytes - 1)
Tagged == [d \in Drive |-> [l \in 0 .. Sectors - 1 |->
            [o \in Offset |-> <<0, d, l * SectorBytes + o>>]]]

===============================================================================
