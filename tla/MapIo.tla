-------------------------------- MODULE MapIo ---------------------------------
(***************************************************************************)
(* src/busio.c: the static descriptor of /dev/mem behind ioremap, and what *)
(* a mapping and an unmapping give.  mapio_region and unmapio_region add   *)
(* an address check no caller fails and the error code of the driver.      *)
(***************************************************************************)

\* axs_mem_fd: -1, a descriptor, or the number of a descriptor that was closed.
MemFds == {"none", "open", "closed"}

\* What ioremap may give, and how it leaves the descriptor.  A failed mmap closes
\* the descriptor and keeps its number: every later mmap fails, and closes again.
Ioremap(fd) ==
  [fd : {"closed"}, ok : {FALSE}]
  \cup (IF fd = "none" THEN [fd : {"none"}, ok : {FALSE}] ELSE {})
  \cup (IF fd # "closed" THEN [fd : {"open"}, ok : {TRUE}] ELSE {})

\* munmap gives no error for a range where nothing is mapped; it does for a range
\* of length 0, that of a core that gpio_init never got to map.
Unmaps(sized) == sized
===============================================================================
