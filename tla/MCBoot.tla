------------------------------- MODULE MCBoot -------------------------------
(* Model-checking instance of the loader, the memory map and the page tables. *)
(* The kernel's file is in order, with data for some of a section's pages, or *)
(* none, or with two sections of initializers, or it is not a kernel.         *)
EXTENDS Boot

(* Records are made by an instance that has no files and tables of its own.   *)
Made == INSTANCE Loader WITH Files <- {}, AcpiTables <- {}, memory <- areas

Section(name, page, raw, initializers) == Made!Section(name, page, raw, initializers)
Text == Section(".text", 1, 2, <<>>)
MCFiles ==
    {Made!File(TRUE, 5, <<Text, Section(".data", 3, 0, <<>>)>>),
     Made!File(TRUE, 7, <<Text, Section(".data", 3, 1, <<>>), Section(".CRT", 6, 1, <<"gdt", "idt">>)>>),
     Made!File(TRUE, 6, <<Section(".CRT", 1, 1, <<"gdt">>), Section(".data", 2, 1, <<>>),
                          Section(".CRT", 4, 1, <<"idt", "tss">>)>>),
     Made!File(FALSE, 3, <<Text>>)}

Table(signature, id, revision, long, flag) == Made!Table(signature, id, revision, long, flag)
MCTables ==
    {Table("madt", id, 4, TRUE, TRUE) : id \in {"m1", "m2"}}
      \cup {Table("hpet", "h", 1, TRUE, TRUE), Table("other", "o", 1, TRUE, TRUE)}
      \cup {Table("fadt", "f", 1, FALSE, FALSE), Table("fadt", "f", 3, FALSE, FALSE)}
      \cup {Table("fadt", "f", 3, TRUE, flag) : flag \in BOOLEAN}
=============================================================================
