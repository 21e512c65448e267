--------------------------- MODULE MigrationSteps ---------------------------
(***************************************************************************)
(* The steps that bring a database to the newest schema, in the order of   *)
(* src/sql/migrations.rs, and the tables of src/sql/tables.sql.  A step is *)
(* named by the version it leads to.  Of the SQL text the model keeps      *)
(* which tables are created and which are used; columns and indexes are    *)
(* left out.                                                               *)
(***************************************************************************)
EXTENDS Sequences

(* A transaction needs the tables `use' and creates `make'; a table that   *)
(* is dropped and made anew with another layout is only used.              *)
(* key_contacts_map, which only a configured profile gets, is left out.    *)
None == {}
Tx(v, use, make) ==
  [v |-> v, tx |-> TRUE, use |-> use, make |-> make, before |-> << >>, after |-> 0]
\* Statement by statement: each either creates a table or sets a configuration value.
Loose(v, before) ==
  [v |-> v, tx |-> FALSE, use |-> None, make |-> None, before |-> before, after |-> 0]
\* A step that has n more statements when its version is written.
Then(step, n) == [step EXCEPT !.after = n]
Set == "set"

To17 == << Tx(1, None, {"leftgrps"}), Tx(2, {"contacts"}, None), Tx(7, None, {"keypairs"}),
           Tx(10, None, {"acpeerstates"}), Tx(12, None, {"msgs_mdns"}),
           Tx(17, {"chats", "msgs"}, None) >>
To53 == << Tx(18, {"acpeerstates"}, None), Tx(27, {"msgs", "chats_contacts"}, None),
           Tx(34, {"msgs", "msgs_mdns", "acpeerstates"}, None),
           Tx(39, {"acpeerstates"}, {"tokens"}), Tx(40, {"jobs"}, None), Tx(44, {"msgs"}, None),
           Tx(46, {"msgs"}, None), Tx(47, {"jobs"}, None), Tx(48, {"msgs"}, None),
           Tx(49, {"chats"}, None), Loose(50, << Set >>), Tx(53, {"chats"}, {"locations"}) >>
To69 == << Tx(54, {"msgs"}, None), Tx(55, {"locations"}, None),
           Then(Tx(59, None, {"devmsglabels"}), 1), Tx(60, {"chats"}, None),
           Tx(61, {"contacts"}, None), Tx(62, {"chats"}, None), Tx(63, {"chats"}, None),
           Tx(64, {"msgs"}, None), Tx(65, {"chats", "msgs"}, None), Loose(66, << >>),
           Loose(67, << Set, Set >>), Tx(68, {"msgs"}, None), Tx(69, {"chats"}, None) >>
To78 == << Loose(71, << Set >>), Tx(72, {"msgs"}, None),
           Loose(73, << "imap_sync", Set, Set >>), Tx(74, {"contacts"}, None),
           Tx(75, {"contacts"}, None), Tx(76, {"msgs"}, None), Loose(77, << >>),
           Tx(78, {"chats"}, None) >>
To91 == << Tx(79, {"msgs"}, None), Tx(80, None, {"multi_device_sync"}), Tx(81, {"msgs"}, None),
           Tx(82, {"imap_sync", "msgs"}, {"imap"}), Tx(83, {"imap_sync"}, None),
           Tx(84, None, {"msgs_status_updates"}), Tx(85, {"imap"}, {"smtp"}),
           Tx(86, None, {"bobstate"}), Tx(87, {"msgs"}, None), Tx(88, None, None),
           Tx(89, None, {"imap_markseen"}), Tx(90, None, {"smtp_mdns"}),
           Tx(91, None, {"smtp_status_updates"}) >>
To102 == << Tx(92, None, {"reactions"}), Tx(93, None, {"sending_domains"}),
            Tx(94, {"acpeerstates"}, None), Tx(95, {"chats_contacts"}, None),
            Tx(96, {"acpeerstates"}, None), Tx(97, None, {"dns_cache"}), Loose(98, << Set >>),
            Loose(99, << >>), Tx(100, {"msgs"}, None), Tx(101, {"smtp"}, None),
            Tx(102, None, {"download"}) >>
To115 == << Tx(103, {"contacts"}, None), Tx(104, {"acpeerstates"}, None),
            Tx(105, {"msgs_status_updates"}, None), Tx(106, {"config"}, None),
            Tx(107, {"keypairs", "config"}, {"old_keypairs"}),
            Tx(109, {"acpeerstates", "config"}, None), Tx(110, {"keypairs", "config"}, None),
            Tx(111, None, {"iroh_gossip_peers"}), Tx(112, {"iroh_gossip_peers"}, None),
            Tx(113, {"iroh_gossip_peers"}, None), Tx(114, {"reactions"}, None),
            Tx(115, {"msgs"}, None) >>
To125 == << Tx(116, {"msgs"}, None), Tx(117, None, {"connection_history"}),
            Tx(118, {"tokens"}, None), Tx(119, None, {"imap_send"}), Tx(120, {"config"}, None),
            Tx(121, {"chats"}, None), Tx(122, {"tokens"}, None),
            Tx(123, {"msgs_status_updates", "msgs"}, None),
            Tx(124, {"chats", "chats_contacts"}, None), Tx(125, None, {"http_cache"}) >>
To133 == << Tx(126, {"http_cache"}, None), Tx(127, {"config"}, None),
            Tx(128, {"chats_contacts"}, None), Tx(129, {"config"}, None),
            Tx(130, None, {"gossip_timestamp"}), Tx(131, {"config"}, {"transports"}),
            Then(Tx(132, {"contacts", "acpeerstates", "config", "chats", "chats_contacts", "msgs"},
                    {"public_keys"}), 1),
            Tx(133, {"chats"}, None) >>
To140 == << Tx(135, None, {"stats_securejoin_sources", "stats_securejoin_uipaths",
                           "stats_securejoin_invites", "stats_msgs"}),
            Tx(136, None, {"stats_sending_enabled_events", "stats_sending_disabled_events"}),
            Tx(137, {"config"}, None), Tx(138, None, {"broadcast_secrets"}),
            Tx(139, {"config"}, None), Tx(140, {"imap", "imap_sync"}, None) >>
To149 == << Tx(141, {"imap"}, None), Tx(142, {"transports"}, {"removed_transports"}),
            Tx(143, {"chats", "contacts"}, None), Tx(144, {"config"}, None),
            Tx(145, {"download", "msgs"}, {"available_post_msgs"}), Tx(146, {"config"}, None),
            Tx(147, None, {"chats_descriptions"}), Tx(148, {"tokens"}, None),
            Tx(149, {"transports", "config"}, None) >>
To154 == << Tx(150, {"config", "transports"}, None), Tx(151, None, {"tls_spki"}),
            Tx(152, {"msgs"}, None), Tx(153, {"msgs", "chats_contacts", "contacts", "chats",
                                               "config"}, None),
            Tx(154, {"imap_markseen", "imap"}, None) >>

AllSteps == To17 \o To53 \o To69 \o To78 \o To91 \o To102 \o To115 \o To125 \o To133 \o To140
            \o To149 \o To154
Newest == 154

(* DBVERSION and the tables of tables.sql. *)
DBVERSION == 68
TablesSql == {"config", "contacts", "chats", "chats_contacts", "msgs", "jobs", "leftgrps", "keypairs",
              "acpeerstates", "msgs_mdns", "tokens", "locations", "devmsglabels"}
=============================================================================
