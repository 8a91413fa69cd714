------------------------------ MODULE HighCalls ------------------------------
(***************************************************************************)
(* passthrough.c (xmp_...): paths, and a descriptor where libfuse passes    *)
(* one in fi; and bbfs.c (bb_...), the big brother file system: every       *)
(* request is logged, and passed on to the path below rootdir or to fi->fh. *)
(***************************************************************************)
EXTENDS FuseCalls

---------------------------------------------------------------------------
(* passthrough.c *)

\* nullpath_ok is left unset
xmp_init == [nullpath |-> FALSE]
\* fi: the request comes with an open file.
xmp_getattr == OnPath
xmp_access == OnPath
xmp_readlink == OnPath
\* opendir, readdir until the end, closedir; the whole directory at once.
xmp_readdir == OpenAs("new") \o On("new") \o CloseOf("new")
xmp_mknod(reg) == MakeFile(reg)
xmp_mkdir == MakeEntry
xmp_unlink == RemoveEntry
xmp_rmdir == RemoveEntry
xmp_symlink == MakeEntry
xmp_rename(flags) == IF flags THEN Refuse ELSE MoveEntry
xmp_link == LinkEntry
xmp_chmod == OnPath
xmp_chown == OnPath
xmp_truncate(fi) == FileOrPath(fi)
xmp_utimens == OnPath
xmp_create == CreateAs("new")
xmp_open == OpenAs("new")
xmp_read(fi) == FileOr(fi)
xmp_write(fi) == FileOr(fi)
xmp_statfs == OnPath
xmp_release == CloseOf("fh")
xmp_fsync == Nothing
xmp_fallocate(fi, mode) == IF mode THEN Refuse ELSE FileOr(fi)
xmp_setxattr == OnPath
xmp_getxattr == OnPath
xmp_listxattr == OnPath
xmp_removexattr == OnPath
\* #ifdef HAVE_COPY_FILE_RANGE.  The kernel sends it with both files open; the
\* handler closes both descriptors.
xmp_copy_file_range == On("fh") \o On("fh2") \o CloseOf("fh") \o CloseOf("fh2")
xmp_lseek(fi) == FileOr(fi)

xmp_oper ==
    [nullpath |-> xmp_init.nullpath,
     path |-> {xmp_getattr, xmp_access, xmp_readlink, xmp_chmod, xmp_chown, xmp_utimens,
               xmp_truncate(FALSE), xmp_read(FALSE), xmp_write(FALSE), xmp_statfs,
               xmp_fallocate(FALSE, TRUE), xmp_fallocate(FALSE, FALSE), xmp_setxattr, xmp_getxattr,
               xmp_listxattr, xmp_removexattr, xmp_lseek(FALSE)},
     make |-> {xmp_mknod(TRUE), xmp_mknod(FALSE), xmp_mkdir, xmp_symlink},
     remove |-> {xmp_unlink, xmp_rmdir},
     rename |-> {xmp_rename(TRUE), xmp_rename(FALSE)},
     link |-> {xmp_link},
     open |-> {xmp_open}, create |-> {xmp_create}, release |-> {xmp_release},
     onFile |-> {xmp_getattr, xmp_chmod, xmp_chown, xmp_utimens, xmp_truncate(TRUE), xmp_read(TRUE),
                 xmp_write(TRUE), xmp_fsync, xmp_fallocate(TRUE, TRUE), xmp_fallocate(TRUE, FALSE),
                 xmp_lseek(TRUE)},
     onFiles |-> {xmp_copy_file_range},
     opendir |-> {Nothing}, onDir |-> {xmp_readdir}, releasedir |-> {Nothing}]

---------------------------------------------------------------------------
(* bbfs.c *)

bb_getattr == OnPath
bb_readlink == OnPath
bb_mknod(reg) == MakeFile(reg)
bb_mkdir == MakeEntry
bb_unlink == RemoveEntry
bb_rmdir == RemoveEntry
bb_symlink == MakeEntry
bb_rename == MoveEntry
bb_link == LinkEntry
bb_chmod == OnPath
bb_chown == OnPath
bb_truncate == OnPath
bb_utime == OnPath
bb_open == OpenAs("new")
bb_read == On("fh")
bb_write == On("fh")
bb_statfs == OnPath
bb_flush == Nothing
bb_release == CloseOf("fh")
bb_fsync == On("fh")
bb_setxattr == OnPath
bb_getxattr == OnPath
bb_listxattr == OnPath
bb_removexattr == OnPath
bb_opendir == OpenAs("new")
bb_readdir == On("fh")
bb_releasedir == CloseOf("fh")
bb_fsyncdir == Nothing
bb_access == OnPath
bb_ftruncate == On("fh")
\* Of the root directory: by path.
bb_fgetattr(root) == IF root THEN bb_getattr ELSE On("fh")

bb_oper ==
    [nullpath |-> FALSE,
     path |-> {bb_getattr, bb_readlink, bb_chmod, bb_chown, bb_truncate, bb_utime, bb_statfs,
               bb_setxattr, bb_getxattr, bb_listxattr, bb_removexattr, bb_access},
     make |-> {bb_mknod(TRUE), bb_mknod(FALSE), bb_mkdir, bb_symlink},
     remove |-> {bb_unlink, bb_rmdir},
     rename |-> {bb_rename}, link |-> {bb_link},
     open |-> {bb_open}, create |-> {}, release |-> {bb_release},
     onFile |-> {bb_read, bb_write, bb_flush, bb_fsync, bb_ftruncate, bb_fgetattr(FALSE)},
     onFiles |-> {},
     opendir |-> {bb_opendir}, onDir |-> {bb_readdir, bb_fsyncdir, bb_fgetattr(TRUE)},
     releasedir |-> {bb_releasedir}]

=============================================================================
