------------------------------ MODULE LowCalls ------------------------------
(***************************************************************************)
(* The low level pass-through file systems, passthrough_ll.c (lo_...) and   *)
(* passthrough_hp.cc (sfs_...): the handlers that do not touch their node   *)
(* objects.  They reach a file by the node's O_PATH descriptor ("path"      *)
(* here) or by fi->fh.                                                      *)
(***************************************************************************)
EXTENDS FuseCalls

Attrs == {{"mode", "owner"}, {"size", "times"}}

---------------------------------------------------------------------------
(* passthrough_ll.c *)

lo_getattr == OnPath
\* The calls for the attributes in valid, one after the other, until one
\* fails; owner always by the node.
lo_setattr(valid, fi) ==
    (IF "mode" \in valid THEN FileOrPath(fi) ELSE Nothing)
    \o (IF "owner" \in valid THEN OnPath ELSE Nothing)
    \o (IF "size" \in valid THEN FileOrPath(fi) ELSE Nothing)
    \o (IF "times" \in valid THEN FileOrPath(fi) ELSE Nothing)
    \o lo_getattr
lo_readlink == OnPath
lo_opendir == Alloc \o OpenAs("new") \o On("new") \o CloseOnError("new") \o FreeOnError
\* lo_do_readdir: a buffer per request
lo_readdir == Alloc \o On("fh") \o Free
lo_releasedir == CloseOf("fh") \o Free
lo_fsyncdir == On("fh")
lo_open == OpenAs("new")
lo_release == CloseOf("fh")
lo_flush == DupAs("new") \o CloseOf("new")
lo_fsync == On("fh")
lo_read == On("fh")
lo_write_buf == On("fh")
lo_statfs == OnPath
lo_fallocate == On("fh")
lo_flock == On("fh")
\* A symlink, or a mount without xattr, is refused; a size of 0 only asks
\* for the size.
lo_getxattr(refused, size) ==
    IF refused THEN Refuse ELSE IF size THEN Alloc \o OnPath \o Free ELSE OnPath
lo_listxattr(refused, size) == lo_getxattr(refused, size)
lo_setxattr(refused) == IF refused THEN Refuse ELSE OnPath
lo_removexattr(refused) == IF refused THEN Refuse ELSE OnPath
lo_copy_file_range == On("fh") \o On("fh2")
lo_lseek == On("fh")

\* The requests that change the directory are in PassthroughLL; here mknod
\* stands for them.
lo_oper ==
    [nullpath |-> FALSE,
     path |-> {lo_getattr, lo_readlink, lo_statfs} \cup {lo_setattr(v, FALSE) : v \in Attrs}
              \cup {lo_getxattr(r, s) : r, s \in BOOLEAN} \cup {lo_listxattr(r, s) : r, s \in BOOLEAN}
              \cup {lo_setxattr(r) : r \in BOOLEAN} \cup {lo_removexattr(r) : r \in BOOLEAN},
     make |-> {MakeEntry}, remove |-> {}, rename |-> {}, link |-> {}, create |-> {},
     open |-> {lo_open}, release |-> {lo_release},
     onFile |-> {lo_flush, lo_fsync, lo_read, lo_write_buf, lo_fallocate, lo_flock, lo_lseek}
                \cup {lo_setattr(v, TRUE) : v \in Attrs},
     onFiles |-> {lo_copy_file_range},
     opendir |-> {lo_opendir}, onDir |-> {lo_readdir, lo_fsyncdir}, releasedir |-> {lo_releasedir}]

---------------------------------------------------------------------------
(* passthrough_hp.cc *)

sfs_getattr == OnPath
do_setattr(valid, fi) ==
    (IF "mode" \in valid THEN FileOrPath(fi) ELSE Nothing)
    \o (IF "owner" \in valid THEN OnPath ELSE Nothing)
    \o (IF "size" \in valid THEN FileOrPath(fi) ELSE Nothing)
    \o (IF "times" \in valid THEN FileOrPath(fi) ELSE Nothing)
    \o sfs_getattr
sfs_readlink == OnPath
\* The DirHandle is deleted on an error, but a descriptor that fdopendir
\* could not use is left open.
sfs_opendir == Alloc \o OpenAs("new") \o On("new") \o FreeOnError
sfs_readdir == Alloc \o On("fh") \o Free
\* The destructor of DirHandle closes the directory.
sfs_releasedir == CloseOf("fh") \o Free
sfs_fsyncdir == On("fh")
sfs_open == OpenAs("new")
sfs_release == CloseOf("fh")
sfs_flush == DupAs("new") \o CloseOf("new")
sfs_fsync == On("fh")
sfs_read == On("fh")
sfs_write_buf == On("fh")
sfs_statfs == OnPath
sfs_fallocate(mode) == IF mode THEN Refuse ELSE On("fh")
sfs_flock == On("fh")
sfs_getxattr(link, size) ==
    IF link THEN Refuse ELSE IF size THEN Alloc \o OnPath \o Free ELSE OnPath
sfs_listxattr(link, size) == sfs_getxattr(link, size)
sfs_setxattr(link) == IF link THEN Refuse ELSE OnPath
sfs_removexattr(link) == IF link THEN Refuse ELSE OnPath

\* The requests that change the directory are in PassthroughHP.
assign_operations ==
    [nullpath |-> FALSE,
     path |-> {sfs_getattr, sfs_readlink, sfs_statfs} \cup {do_setattr(v, FALSE) : v \in Attrs}
              \cup {sfs_getxattr(r, s) : r, s \in BOOLEAN} \cup {sfs_listxattr(r, s) : r, s \in BOOLEAN}
              \cup {sfs_setxattr(r) : r \in BOOLEAN} \cup {sfs_removexattr(r) : r \in BOOLEAN},
     make |-> {MakeEntry}, remove |-> {}, rename |-> {}, link |-> {}, create |-> {},
     open |-> {sfs_open}, release |-> {sfs_release},
     onFile |-> {sfs_flush, sfs_fsync, sfs_read, sfs_write_buf, sfs_fallocate(TRUE), sfs_fallocate(FALSE),
                 sfs_flock} \cup {do_setattr(v, TRUE) : v \in Attrs},
     onFiles |-> {},
     opendir |-> {sfs_opendir}, onDir |-> {sfs_readdir, sfs_fsyncdir}, releasedir |-> {sfs_releasedir}]

=============================================================================
