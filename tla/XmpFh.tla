------------------------------- MODULE XmpFh -------------------------------
(* passthrough_fh.c: descriptors of open files are kept in fi->fh, and the   *)
(* path may be missing (nullpath_ok).                                        *)
EXTENDS FuseCalls

\* cfg->nullpath_ok = 1
xmp_init == [nullpath |-> TRUE]
xmp_getattr(fi) == FileOrPath(fi)
xmp_access == OnPath
xmp_readlink == OnPath
\* Seeded fault: the block is not freed when opendir fails.
xmp_opendir_nofree == Alloc \o OpenAs("new")
\* A struct xmp_dirp with a DIR; freed again when opendir fails.
xmp_opendir == Alloc \o OpenAs("new") \o FreeOnError
xmp_readdir == On("fh")
xmp_releasedir == CloseOf("fh") \o Free
xmp_mknod == MakeEntry
xmp_mkdir == MakeEntry
xmp_unlink == RemoveEntry
xmp_rmdir == RemoveEntry
xmp_symlink == MakeEntry
xmp_rename(flags) == IF flags THEN Refuse ELSE MoveEntry
xmp_link == LinkEntry
xmp_chmod(fi) == FileOrPath(fi)
xmp_chown(fi) == FileOrPath(fi)
xmp_truncate(fi) == FileOrPath(fi)
xmp_utimens(fi) == FileOrPath(fi)
xmp_create == CreateAs("new")
xmp_open == OpenAs("new")
xmp_read == On("fh")
\* The buffer names the descriptor; libfuse reads from it and frees the buffer.
xmp_read_buf == Alloc \o On("fh") \o Free
xmp_write == On("fh")
xmp_write_buf == On("fh")
xmp_statfs == OnPath
xmp_flush == DupAs("new") \o CloseOf("new")
xmp_release == CloseOf("fh")
xmp_fsync == On("fh")
xmp_fallocate(mode) == IF mode THEN Refuse ELSE On("fh")
xmp_setxattr == OnPath
xmp_getxattr == OnPath
xmp_listxattr == OnPath
xmp_removexattr == OnPath
xmp_lock == On("fh")
xmp_flock == On("fh")
xmp_copy_file_range == On("fh") \o On("fh2")
xmp_lseek == On("fh")

xmp_oper ==
    [nullpath |-> xmp_init.nullpath,
     path |-> {xmp_getattr(FALSE), xmp_access, xmp_readlink, xmp_chmod(FALSE), xmp_chown(FALSE),
               xmp_truncate(FALSE), xmp_utimens(FALSE), xmp_statfs, xmp_setxattr, xmp_getxattr,
               xmp_listxattr, xmp_removexattr},
     make |-> {xmp_mknod, xmp_mkdir, xmp_symlink},
     remove |-> {xmp_unlink, xmp_rmdir},
     rename |-> {xmp_rename(TRUE), xmp_rename(FALSE)},
     link |-> {xmp_link},
     open |-> {xmp_open}, create |-> {xmp_create}, release |-> {xmp_release},
     onFile |-> {xmp_getattr(TRUE), xmp_chmod(TRUE), xmp_chown(TRUE), xmp_truncate(TRUE),
                 xmp_utimens(TRUE), xmp_read, xmp_read_buf, xmp_write, xmp_write_buf, xmp_flush,
                 xmp_fsync, xmp_fallocate(TRUE), xmp_fallocate(FALSE), xmp_lock, xmp_flock, xmp_lseek},
     onFiles |-> {xmp_copy_file_range},
     opendir |-> {xmp_opendir}, onDir |-> {xmp_readdir}, releasedir |-> {xmp_releasedir}]

=============================================================================
