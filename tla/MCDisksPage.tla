----------------------------- MODULE MCDisksPage ------------------------------
EXTENDS ManualTab

Disk(p, verdict) ==
    [path |-> p, device |-> "disk", removable |-> FALSE, readOnly |-> FALSE,
     size |-> [kind |-> "label", bytes |-> 0], verdict |-> verdict]

(* Nothing, one disk, the other one, two, two of which one may not be used, all
   four, and an answer out of order that lists a disk twice. *)
MCPayloads ==
    { <<>>, <<Disk(1, "eligible")>>, <<Disk(2, "eligible")>>,
      <<Disk(1, "eligible"), Disk(3, "eligible")>>,
      <<Disk(1, "ineligible"), Disk(2, "eligible")>>,
      <<Disk(1, "eligible"), Disk(2, "eligible"), Disk(3, "eligible"), Disk(4, "eligible")>>,
      <<Disk(2, "eligible"), Disk(1, "eligible"), Disk(2, "ineligible")>> }

(* From nothing to roomy, with one where the system just fits; empty or with what
   another system left. *)
MCSizes == {0, 1, 4, 5, 9}
MCHeld == BoundedSeq([sizeBytes : {0, 3, 4}], 2)

MCHandMade ==
    BoundedSeq([device : {1, 2}, mountpoint : {"/"}, usage : {"root"}, fstype : {"btrfs"},
                sizeBytes : {4, 9}], 1)
=============================================================================
