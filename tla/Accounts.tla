------------------------------ MODULE Accounts ------------------------------
(***************************************************************************)
(* Accounts and their table.  A model is a list of column sets; each set   *)
(* names its columns twice, for the table and for the members bound to it. *)
(* A row is written by position and read by name.                          *)
(***************************************************************************)
EXTENDS Naturals, Sequences

CONSTANTS
  StartX, StartY, StartZ,   \* where players begin
  kColours                  \* values of a colour: 256

\* GetColumnDefinitions of each set: the columns of the table in their order.
PlayerDefinitions == <<"username", "password", "salt", "rights", "skull_time_left">>
AppearanceDefinitions ==
  <<"look_hair", "look_beard", "look_torso", "look_arms", "look_forearms", "look_legs", "look_shoes",
    "colour_shoes", "colour_legs", "colour_torso", "colour_hair", "colour_skin">>
SkillsDefinitions == <<"skill_attack">>
WorldTileDefinitions == <<"position_x", "position_y", "position_z">>
Definitions == PlayerDefinitions \o AppearanceDefinitions \o SkillsDefinitions \o WorldTileDefinitions

\* GetColumnBinds: the members, in the order they are bound to an INSERT.
PlayerBinds == <<"username", "password", "salt", "rights", "skull_time_left">>
AppearanceBinds ==
  <<"look_hair", "look_beard", "look_torso", "look_arms", "look_forearms", "look_legs", "look_shoes",
    "colour_shoes", "colour_legs", "colour_torso", "colour_hair", "colour_skin">>
SkillsBinds == <<"skill_attack">>
WorldTileBinds == <<"position_x", "position_y", "position_z">>
Binds == PlayerBinds \o AppearanceBinds \o SkillsBinds \o WorldTileBinds

Columns == {Definitions[i] : i \in 1 .. Len(Definitions)}
Members == {Binds[i] : i \in 1 .. Len(Binds)}

\* BindColumns: what an INSERT puts into the columns.
Inserted(account) == [c \in Columns |-> LET i == CHOOSE i \in 1 .. Len(Definitions) : Definitions[i] = c
                                        IN  account[Binds[i]]]

\* Model::Insert: the row gets the next number.
Insert(table, account) == Append(table, [id |-> Len(table) + 1, row |-> Inserted(account)])

\* Model::Select, with the name to look for.
Select(table, name) == {i \in 1 .. Len(table) : table[i].row.username = name}

\* BindFields: the members a SELECT fills in.
Selected(row) == [c \in Members |-> row[c]]

\* SetDefaultMale and SetDefaultFemale.
Male ==
  [look_hair |-> 7, look_beard |-> 14, look_torso |-> 18, look_arms |-> 26, look_forearms |-> 34,
   look_legs |-> 38, look_shoes |-> 42, colour_shoes |-> 0, colour_legs |-> 32, colour_torso |-> 95,
   colour_hair |-> 17, colour_skin |-> 0]
Female ==
  [look_hair |-> 276, look_beard |-> 57, look_torso |-> 57, look_arms |-> 65, look_forearms |-> 68,
   look_legs |-> 77, look_shoes |-> 80, colour_shoes |-> 0, colour_legs |-> 95, colour_torso |-> 95,
   colour_hair |-> 78, colour_skin |-> 0]

\* SetAppearanceColour for the skin: kept in 8 bits, and in the shoes.
WithSkin(looks, skin) == [looks EXCEPT !.colour_shoes = skin % kColours]

\* EncodePassword keeps passwords and salts apart.
EncodePassword(password, salt) == <<password, salt>>

CheckPassword(account, password) == EncodePassword(password, account.salt) = account.password

\* The members of a model nobody has set.
Blank == [c \in Members |-> 0]

\* A new account.
NewAccount(name, password, salt, looks, skin) ==
  LET own == [username |-> name, password |-> EncodePassword(password, salt), salt |-> salt,
              position_x |-> StartX, position_y |-> StartY, position_z |-> StartZ]
      look == WithSkin(looks, skin)
  IN  [c \in Members |-> IF c \in DOMAIN own THEN own[c] ELSE IF c \in DOMAIN look THEN look[c] ELSE Blank[c]]
=============================================================================
