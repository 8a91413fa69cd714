------------------------------ MODULE OldXmp ------------------------------
(***************************************************************************)
(* The pass-through file systems of API 26: fusexmp.c, where every request  *)
(* opens the path again, and fusexmp_fh.c (xmp_..._fh), with descriptors in *)
(* fi->fh.                                                                  *)
(***************************************************************************)
EXTENDS FuseCalls

---------------------------------------------------------------------------
(* fusexmp.c *)

xmp_getattr == OnPath
xmp_access == OnPath
xmp_readlink == OnPath
xmp_readdir == OpenAs("new") \o On("new") \o CloseOf("new")
xmp_mknod(reg) == MakeFile(reg)
xmp_mkdir == MakeEntry
xmp_unlink == RemoveEntry
xmp_rmdir == RemoveEntry
xmp_symlink == MakeEntry
xmp_rename == MoveEntry
xmp_link == LinkEntry
xmp_chmod == OnPath
xmp_chown == OnPath
xmp_truncate == OnPath
xmp_utimens == OnPath
\* Only checks that the file can be opened.
xmp_open == OpenAs("new") \o CloseOf("new")
xmp_read == FileOr(FALSE)
xmp_write == FileOr(FALSE)
xmp_statfs == OnPath
xmp_release == Nothing
xmp_fsync == Nothing
xmp_fallocate(mode) == IF mode THEN Refuse ELSE FileOr(FALSE)
xmp_setxattr == OnPath
xmp_getxattr == OnPath
xmp_listxattr == OnPath
xmp_removexattr == OnPath

\* The operations name no flag_nullpath_ok: every request comes with its path.
nullpath_ok == FALSE

xmp_oper ==
    [nullpath |-> nullpath_ok,
     path |-> {xmp_getattr, xmp_access, xmp_readlink, xmp_chmod, xmp_chown, xmp_truncate,
               xmp_utimens, xmp_statfs, xmp_setxattr, xmp_getxattr, xmp_listxattr, xmp_removexattr},
     make |-> {xmp_mknod(TRUE), xmp_mknod(FALSE), xmp_mkdir, xmp_symlink},
     remove |-> {xmp_unlink, xmp_rmdir},
     rename |-> {xmp_rename}, link |-> {xmp_link},
     open |-> {xmp_open}, create |-> {}, release |-> {xmp_release},
     onFile |-> {xmp_read, xmp_write, xmp_fsync, xmp_fallocate(TRUE), xmp_fallocate(FALSE)},
     onFiles |-> {},
     opendir |-> {Nothing}, onDir |-> {xmp_readdir}, releasedir |-> {Nothing}]

---------------------------------------------------------------------------
(* fusexmp_fh.c *)

xmp_getattr_fh == OnPath
xmp_fgetattr_fh == On("fh")
xmp_access_fh == OnPath
xmp_readlink_fh == OnPath
xmp_opendir_fh == Alloc \o OpenAs("new") \o FreeOnError
xmp_readdir_fh == On("fh")
xmp_releasedir_fh == CloseOf("fh") \o Free
xmp_mknod_fh == MakeEntry
xmp_mkdir_fh == MakeEntry
xmp_unlink_fh == RemoveEntry
xmp_rmdir_fh == RemoveEntry
xmp_symlink_fh == MakeEntry
xmp_rename_fh == MoveEntry
xmp_link_fh == LinkEntry
xmp_chmod_fh == OnPath
xmp_chown_fh == OnPath
xmp_truncate_fh == OnPath
xmp_ftruncate_fh == On("fh")
xmp_utimens_fh == OnPath
xmp_create_fh == CreateAs("new")
xmp_open_fh == OpenAs("new")
xmp_read_fh == On("fh")
xmp_read_buf_fh == Alloc \o On("fh") \o Free
xmp_write_fh == On("fh")
xmp_write_buf_fh == On("fh")
xmp_statfs_fh == OnPath
xmp_flush_fh == DupAs("new") \o CloseOf("new")
xmp_release_fh == CloseOf("fh")
xmp_fsync_fh == On("fh")
xmp_fallocate_fh(mode) == IF mode THEN Refuse ELSE On("fh")
xmp_setxattr_fh == OnPath
xmp_getxattr_fh == OnPath
xmp_listxattr_fh == OnPath
xmp_removexattr_fh == OnPath
xmp_lock_fh == On("fh")
xmp_flock_fh == On("fh")

\* flag_nullpath_ok and flag_utime_omit_ok
xmp_oper_fh ==
    [nullpath |-> TRUE,
     path |-> {xmp_getattr_fh, xmp_access_fh, xmp_readlink_fh, xmp_chmod_fh, xmp_chown_fh, xmp_truncate_fh,
               xmp_utimens_fh, xmp_statfs_fh, xmp_setxattr_fh, xmp_getxattr_fh, xmp_listxattr_fh, xmp_removexattr_fh},
     make |-> {xmp_mknod_fh, xmp_mkdir_fh, xmp_symlink_fh},
     remove |-> {xmp_unlink_fh, xmp_rmdir_fh},
     rename |-> {xmp_rename_fh}, link |-> {xmp_link_fh},
     open |-> {xmp_open_fh}, create |-> {xmp_create_fh}, release |-> {xmp_release_fh},
     onFile |-> {xmp_fgetattr_fh, xmp_ftruncate_fh, xmp_read_fh, xmp_read_buf_fh, xmp_write_fh, xmp_write_buf_fh,
                 xmp_flush_fh, xmp_fsync_fh, xmp_fallocate_fh(TRUE), xmp_fallocate_fh(FALSE), xmp_lock_fh, xmp_flock_fh},
     onFiles |-> {},
     opendir |-> {xmp_opendir_fh}, onDir |-> {xmp_readdir_fh}, releasedir |-> {xmp_releasedir_fh}]

=============================================================================
