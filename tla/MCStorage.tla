------------------------------ MODULE MCStorage -------------------------------
(***************************************************************************)
(* Instance of Storage for TLC: two datasets of one ZFS pool and a small   *)
(* ext volume; a share, its alias, a share inside of it, and shares on the *)
(* other volumes.                                                          *)
(***************************************************************************)
EXTENDS Storage

Public == <<"ZFS1_DATA", "Public">>
Photos == <<"ZFS1_DATA", "Public", "Photos">>
Media  == <<"ZFS2_DATA", "Media">>
Web    == <<"CACHEDEV1_DATA", "Web">>

Directories ==
    {Public, Photos, Append(Photos, "2024"), Media, Append(Media, "Films"),
     Web, Append(Web, "www"), Append(Web, "logs")}

Folders ==
    [public |-> Public, alias |-> Public, photos |-> Photos,
     media |-> Media, web |-> Web]

Disks == <<
    [name |-> "ZFS1_DATA", zfs |-> TRUE, total |-> 9, used |-> 0, pool |-> "zpool1"],
    [name |-> "ZFS2_DATA", zfs |-> TRUE, total |-> 9, used |-> 4, pool |-> "zpool1"],
    [name |-> "CACHEDEV1_DATA", zfs |-> FALSE, total |-> 2, used |-> 2, pool |-> "mapper"]>>

(* The instance is one of those the theorems about the pools speak of.     *)
ASSUME VolumesHaveSize /\ DatasetsShareCapacity
=============================================================================
